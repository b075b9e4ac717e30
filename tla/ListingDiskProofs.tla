--------------------------- MODULE ListingDiskProofs --------------------------
(***************************************************************************)
(* Whatever is killed or does not fit on the disk, a saved listing that is *)
(* served is one version of the page, whole, unless a save cut its file    *)
(* while it was read; and it is not too old.                               *)
(***************************************************************************)
EXTENDS ListingDisk, FiniteSetTheorems, TLAPS

Headers == [kind : {"header"}, of : Versions, time : 0..MaxTime]

Loads == [pc : PCs, inode : {None} \cup Inodes, time : 0..MaxTime, of : Versions,
          links : Seq(Block), disk : BOOLEAN, written : Nat, sawMixed : BOOLEAN,
          cut : BOOLEAN]

Ranges == /\ TypeOK /\ load \in [Threads -> Loads]
          /\ \A i \in Inodes : blocks[i] # <<>> => blocks[i][1] \in {Hole} \cup Headers

\* What is dated before a version of the page was replaced is of that version
\* or an earlier one: index_time is from before the download.
Dated ==
  /\ \A v \in Versions : v >= page => replaced[v] = Never
  /\ \A i \in Inodes : blocks[i] # <<>> /\ blocks[i][1] # Hole =>
       LET header == blocks[i][1]
       IN  header.time <= now /\ header.time <= replaced[header.of]
  /\ \A t \in Threads :
       /\ load[t].time <= now
       /\ load[t].pc # "fetch" => load[t].time <= replaced[load[t].of]

\* A file that one save at a time was at is what it has written of its listing.
WholeFile(i) ==
  blocks[i] # <<>> =>
    LET header == blocks[i][1]
    IN  /\ header # Hole /\ Len(blocks[i]) <= Size[header.of] + 1
        /\ \A k \in 2..Len(blocks[i]) : blocks[i][k] = Entry(header.of, k - 1)

Unmixed == \A i \in Inodes \ mixed : WholeFile(i)

\* The save that is at it has written as much as has left its buffer, until
\* the disk took no more.
OneSave ==
  \A t \in Threads :
    /\ load[t].pc \notin {"write", "loaded"} => load[t].written = 0
    /\ load[t].pc = "write" /\ load[t].inode \notin mixed =>
         LET file == blocks[load[t].inode]
         IN  /\ Saving(load[t].inode) = {t}
             /\ Len(file) <= load[t].written
             /\ ~full => Len(file) = load[t].written
             /\ file # <<>> => file[1] = Header(load[t].of, load[t].time)

\* A load from the disk whose file no two saves met in, and none cut.
Clean(t) == ~load[t].sawMixed /\ ~load[t].cut

\* It reads the file whose header it has read, and has read the links in order;
\* with a file that was cut, each link is in its place.
Reads ==
  \A t \in Threads :
    /\ load[t].pc \in {"header", "inspect", "fetch", "save", "write"} => ~load[t].disk
    /\ load[t].pc \in {"header", "inspect"} => load[t].links = <<>>
    /\ load[t].pc \in {"inspect", "entries"} /\ Clean(t) =>
         LET file == blocks[load[t].inode]
         IN  /\ load[t].inode \notin mixed /\ file # <<>>
             /\ file[1] = Header(load[t].of, load[t].time)
    /\ load[t].pc \in {"entries", "check", "loaded"} /\ load[t].disk =>
         LET links == load[t].links
         IN  /\ Len(links) <= Size[load[t].of]
             /\ load[t].pc # "entries" => Len(links) = Size[load[t].of]
             /\ ~load[t].sawMixed =>
                  \A k \in 1..Len(links) : InPlace(links[k], k)
             /\ Clean(t) => \A k \in 1..Len(links) : links[k] = Entry(load[t].of, k)

ListingInv == Ranges /\ Dated /\ Unmixed /\ OneSave /\ Reads
-----------------------------------------------------------------------------
(* Ranges. *)

\* Versions are numbered from one, and each has links.
LEMMA Sizes ==
  /\ Len(Size) \in Nat /\ Versions = 1..Len(Size) /\ 1 \in Versions
  /\ \A v \in Versions : Size[v] \in Nat /\ Size[v] > 0
  /\ refresh_timeout \in Nat /\ MaxTime \in Nat /\ MaxKills \in Nat
BY ListingAssumption DEF ListingAssumption, Versions

\* What is saved: the header, and then the links in order.
LEMMA ImageIs ==
  ASSUME NEW v \in Versions, NEW time \in 0..MaxTime
  PROVE  /\ Len(Image(v, time)) = Size[v] + 1
         /\ Image(v, time)[1] = Header(v, time)
         /\ \A k \in 2..Size[v] + 1 : Image(v, time)[k] = Entry(v, k - 1)
         /\ \A k \in 1..Size[v] + 1 : Image(v, time)[k] \in Block
<1> DEFINE entries == [i \in 1..Size[v] |-> Entry(v, i)]
<1> Size[v] \in Nat
  BY Sizes
<1>1. Header(v, time) \in Block
  BY DEF Block, Header
<1>2. \A i \in 1..Size[v] : Entry(v, i) \in Block
  <2>1. \A i \in 1..Size[v] : Entry(v, i) \in Entries
    BY DEF Entries
  <2> QED
    BY <2>1 DEF Block
<1>3. entries \in Seq(Block) /\ Len(entries) = Size[v]
  <2> HIDE DEF Block
  <2> QED
    BY <1>2
<1>4. Image(v, time) = <<Header(v, time)>> \o entries
  BY DEF Image
<1> HIDE DEF entries
<1>5. /\ Len(Image(v, time)) = Size[v] + 1
      /\ Image(v, time)[1] = Header(v, time)
      /\ \A k \in 2..Size[v] + 1 : Image(v, time)[k] = entries[k - 1]
  BY <1>1, <1>3, <1>4
<1>6. \A k \in 2..Size[v] + 1 : Image(v, time)[k] = Entry(v, k - 1)
  <2>1. \A k \in 2..Size[v] + 1 : k - 1 \in 1..Size[v]
    OBVIOUS
  <2>2. \A i \in 1..Size[v] : entries[i] = Entry(v, i)
    BY DEF entries
  <2> QED
    BY <1>5, <2>1, <2>2
<1> QED
  BY <1>1, <1>2, <1>5, <1>6

\* A file nobody has open and that is not the listing is at hand for a save.
LEMMA FreshIs ==
  ASSUME TypeOK, load \in [Threads -> Loads]
  PROVE  linked = None => Fresh \in Inodes /\ Fresh \notin InUse
<1> SUFFICES ASSUME linked = None
             PROVE  \E i \in Inodes : i \notin InUse
  BY DEF Fresh
<1> DEFINE open == {load[t].inode : t \in Threads}
           f == [t \in Threads |-> load[t].inode]
<1>1. IsFiniteSet(Threads) /\ Cardinality(Threads) \in Nat
  BY ListingAssumption, FS_CardinalityType DEF ListingAssumption
<1>2. f \in Surjection(Threads, open)
  BY DEF Surjection
<1>3. IsFiniteSet(open) /\ Cardinality(open) <= Cardinality(Threads)
  BY <1>1, <1>2, FS_Surjection
<1>4. IsFiniteSet(Inodes) /\ Cardinality(Inodes) = Cardinality(Threads) + 1
  BY <1>1, FS_Interval DEF Inodes
<1>5. Cardinality(open) \in Nat
  BY <1>3, FS_CardinalityType
<1>6. ~(Inodes \subseteq open)
  BY <1>1, <1>3, <1>4, <1>5, FS_Subset
<1>7. PICK i \in Inodes : i \notin open
  BY <1>6
<1>8. i # None
  BY <1>1 DEF Inodes, None
<1> QED
  BY <1>7, <1>8 DEF InUse

\* A thread that begins again has nothing from the last load.
Blank(new, label) == /\ new \in Loads /\ new.pc = label /\ new.inode = None
                     /\ new.time = 0 /\ new.of = 1 /\ new.links = <<>>
                     /\ new.disk = FALSE /\ new.written = 0 /\ new.sawMixed = FALSE

\* A load that is over leaves nothing behind, whatever comes next.
LEMMA IdleIs == /\ Blank(Idle, "idle")
                /\ \A label \in PCs : Blank([Idle EXCEPT !.pc = label], label)
<1>1. 0 \in 0..MaxTime /\ <<>> \in Seq(Block) /\ 1 \in Versions
  BY Sizes
<1>2. Blank(Idle, "idle")
  BY <1>1 DEF Idle, Loads, Blank, PCs
<1>3. ASSUME NEW label \in PCs PROVE Blank([Idle EXCEPT !.pc = label], label)
  BY <1>1, <1>3 DEF Idle, Loads, Blank
<1> QED
  BY <1>2, <1>3

\* What a load is when it has opened the listing's file, or was allocated.
Begun(to, label, i) == /\ to \in Loads /\ to.pc = label /\ to.inode = i
                       /\ to.written = 0 /\ to.of = 1

LEMMA BegunIs ==
  /\ \A i \in Inodes :
       Begun([Idle EXCEPT !.pc = "header", !.inode = i], "header", i)
  /\ \A time \in 0..MaxTime :
       Begun([Idle EXCEPT !.pc = "fetch", !.time = time], "fetch", None)
<1>1. 0 \in 0..MaxTime /\ <<>> \in Seq(Block) /\ 1 \in Versions
  BY Sizes
<1>2. ASSUME NEW i \in Inodes
      PROVE  Begun([Idle EXCEPT !.pc = "header", !.inode = i], "header", i)
  BY <1>1, <1>2 DEF Begun, Idle, Loads, PCs
<1>3. ASSUME NEW time \in 0..MaxTime
      PROVE  Begun([Idle EXCEPT !.pc = "fetch", !.time = time], "fetch", None)
  BY <1>1, <1>3 DEF Begun, Idle, Loads, PCs
<1> QED
  BY <1>2, <1>3

\* A step of a thread by itself: only its load changes, and perhaps the path.
Moves(t, to) == /\ load' = [load EXCEPT ![t] = to] /\ linked' \in {None, linked}
                /\ UNCHANGED <<now, page, replaced, blocks, mixed, full, kills>>

\* The labels at which a thread has a file open.
OpenAt == {"header", "inspect", "entries", "write"}

\* A thread that has a file open is at one of them.
LEMMA OpenFiles ==
  ASSUME Ranges, NEW t \in Threads, load[t].pc \in OpenAt
  PROVE  load[t].inode \in Inodes /\ blocks[load[t].inode] \in Seq(Block)
BY DEF Ranges, TypeOK, OpenAt

\* Where the loads are after a thread has gone on.
LEMMA GoesTo ==
  ASSUME load \in [Threads -> Loads], NEW t \in Threads, NEW from, NEW to,
         Goes(t, from, to)
  PROVE  /\ load[t].pc = from /\ load' = [load EXCEPT ![t] = to]
         /\ \A u \in Threads : load'[u] = IF u = t THEN to ELSE load[u]
BY DEF Goes

\* A block of a file that is not the first one is put where it belongs.
IsWritten(new, file, at, block) ==
  /\ new \in Seq(Block) /\ new # <<>>
  /\ Len(new) = IF at > Len(file) THEN at ELSE Len(file)
  /\ \A i \in 1..Len(new) :
       new[i] = IF i = at THEN block ELSE IF i <= Len(file) THEN file[i] ELSE Hole

LEMMA WrittenIs ==
  ASSUME NEW file \in Seq(Block), NEW at \in Nat \ {0}, NEW block \in Block
  PROVE  IsWritten(Written(file, at, block), file, at, block)
<1> DEFINE m == IF at > Len(file) THEN at ELSE Len(file)
           new == [i \in 1..m |-> IF i = at THEN block
                                  ELSE IF i <= Len(file) THEN file[i] ELSE Hole]
<1>1. Hole \in Block
  BY DEF Block
<1>2. m \in Nat /\ m >= 1
  OBVIOUS
<1> HIDE DEF m
<1>3. \A i \in 1..m : new[i] \in Block
  <2> SUFFICES ASSUME NEW i \in 1..m PROVE new[i] \in Block
    OBVIOUS
  <2>1. i <= Len(file) => file[i] \in Block
    BY <1>2
  <2> QED
    BY <1>1, <2>1
<1>4. new \in Seq(Block) /\ Len(new) = m
  BY <1>2, <1>3
<1>5. Written(file, at, block) = new
  BY DEF Written, m
<1>6. new # <<>>
  BY <1>2, <1>4
<1> QED
  BY <1>4, <1>5, <1>6 DEF m, IsWritten

\* Every step keeps the ranges: a thread that has no file open can always make
\* one, and a file begins with a header or with what was skipped of one.
LEMMA RangesStep == ASSUME Ranges, OneSave, Reads, [Next]_vars PROVE Ranges'
<1> DEFINE Fits(to) == /\ to \in Loads
                       /\ to.pc \in OpenAt <=> to.inode # None
                       /\ to.written \in 0 .. Size[to.of] + 1
<1> load \in [Threads -> Loads]
  BY DEF Ranges
<1>a. \A t \in Threads : Fits(load[t])
  BY DEF Ranges, TypeOK, OpenAt
<1>b. ASSUME NEW new \in [Threads -> Loads], \A t \in Threads : Fits(new[t]),
             load' = new, linked' \in {None} \cup Inodes, now' \in 0..MaxTime,
             kills' \in 0..MaxKills, full' \in BOOLEAN, page' \in Versions,
             replaced' \in [Versions -> 0..Never], mixed' \subseteq Inodes,
             blocks' \in [Inodes -> Seq(Block)],
             \A i \in Inodes : blocks'[i] # <<>>
                              => blocks'[i][1] \in {Hole} \cup Headers
      PROVE  Ranges'
  <2> HIDE DEF Block
  <2>1. \A t \in Threads :
          /\ new[t].pc \in PCs /\ new[t].inode \in {None} \cup Inodes
          /\ new[t].time \in 0..MaxTime /\ new[t].of \in Versions
          /\ new[t].links \in Seq(Block)
    BY <1>b DEF Loads
  <2> QED
    BY <1>b, <2>1 DEF Ranges, TypeOK, OpenAt
<1>c. /\ now \in 0..MaxTime /\ kills \in 0..MaxKills /\ full \in BOOLEAN
      /\ page \in Versions /\ replaced \in [Versions -> 0..Never]
      /\ linked \in {None} \cup Inodes /\ mixed \subseteq Inodes
      /\ blocks \in [Inodes -> Seq(Block)]
      /\ \A i \in Inodes : blocks[i] # <<>> => blocks[i][1] \in {Hole} \cup Headers
  BY DEF Ranges, TypeOK
<1>d. ASSUME NEW t \in Threads, NEW to, Fits(to), Moves(t, to) PROVE Ranges'
  <2> DEFINE new == [load EXCEPT ![t] = to]
  <2>1. new \in [Threads -> Loads]
    BY <1>d
  <2>2. \A u \in Threads : new[u] = IF u = t THEN to ELSE load[u]
    OBVIOUS
  <2>3. \A u \in Threads : Fits(new[u])
    BY <1>a, <1>d, <2>2
  <2> HIDE DEF new, Fits
  <2>4. load' = new
    BY <1>d DEF Moves, new
  <2> QED
    BY <1>b, <1>c, <1>d, <2>1, <2>3, <2>4 DEF Moves
<1>e. ASSUME NEW to, NEW label \in PCs \ OpenAt, Blank(to, label) PROVE Fits(to)
  BY <1>e, Sizes DEF Blank
<1>f. ASSUME NEW t \in Threads, NEW from, NEW label \in PCs \ OpenAt,
             \/ Goes(t, from, [Idle EXCEPT !.pc = label])
             \/ label = "idle" /\ Goes(t, from, Idle),
             linked' \in {None, linked},
             UNCHANGED <<now, page, replaced, blocks, mixed, full, kills>>
      PROVE  Ranges'
  <2>1. PICK to : Goes(t, from, to) /\ Blank(to, label)
    BY <1>f, IdleIs
  <2>2. Fits(to) /\ Moves(t, to)
    BY <1>e, <1>f, <2>1 DEF Goes, Moves
  <2> QED
    BY <1>d, <2>2
<1> HIDE DEF Fits
<1>1. ASSUME NEW t \in Threads, DiskOpen(t) PROVE Ranges'
  <2>1. CASE linked = None
    BY <1>1, <1>f, <2>1 DEF DiskOpen, PCs, OpenAt
  <2>2. CASE linked # None
    <3> DEFINE to == [Idle EXCEPT !.pc = "header", !.inode = linked]
    <3>1. linked \in Inodes
      BY <1>c, <2>2
    <3>2. /\ to \in Loads /\ to.pc = "header" /\ to.inode = linked
          /\ to.written = 0 /\ to.of = 1
      BY <3>1, BegunIs DEF Begun
    <3>3. Moves(t, to)
      BY <1>1, <2>2 DEF DiskOpen, Goes, Moves
    <3> HIDE DEF to
    <3>4. Fits(to)
      BY <2>2, <3>2, Sizes DEF Fits, OpenAt
    <3> QED
      BY <1>d, <3>3, <3>4
  <2> QED
    BY <2>1, <2>2
<1>2. ASSUME NEW t \in Threads, ReadHeader(t) PROVE Ranges'
  <2> DEFINE file == blocks[load[t].inode]
             to == [load[t] EXCEPT !.pc = "inspect", !.of = file[1].of,
                                   !.time = file[1].time, !.sawMixed = Saw(t)]
  <2>1. CASE file = <<>> \/ file[1] = Hole
    BY <1>2, <1>f, <2>1 DEF ReadHeader, NoGood, PCs, OpenAt
  <2>2. CASE ~(file = <<>> \/ file[1] = Hole)
    <3>1. /\ load[t] \in Loads /\ load[t].pc = "header" /\ load[t].inode \in Inodes
          /\ load[t].written = 0
      BY <1>2, OpenFiles DEF ReadHeader, Goes, OpenAt, OneSave
    <3>2. file[1] \in Headers
      BY <1>c, <2>2, <3>1
    <3>3. file[1].of \in Versions /\ file[1].time \in 0..MaxTime
      BY <3>2 DEF Headers
    <3>4. Saw(t) \in BOOLEAN
      BY <3>1 DEF Saw, Loads
    <3>5. Moves(t, to)
      BY <1>2, <2>2 DEF ReadHeader, Goes, Moves
    <3>6. /\ to \in Loads /\ to.pc = "inspect" /\ to.inode = load[t].inode
          /\ to.written = 0 /\ to.of \in Versions
      BY <3>1, <3>3, <3>4 DEF Loads, PCs
    <3> HIDE DEF to
    <3>7. Fits(to)
      BY <3>1, <3>6, Sizes DEF Fits, OpenAt, Inodes, None
    <3> QED
      BY <1>d, <3>5, <3>7
  <2> QED
    BY <2>1, <2>2
<1>3. ASSUME NEW t \in Threads, Inspect(t) PROVE Ranges'
  <2> DEFINE to == [load[t] EXCEPT !.pc = "entries", !.disk = TRUE,
                                   !.sawMixed = Saw(t)]
  <2>1. \/ Goes(t, "inspect", [Idle EXCEPT !.pc = "delete"])
        \/ Goes(t, "inspect", to)
    BY <1>3 DEF Inspect, NoGood
  <2>2. /\ UNCHANGED <<now, page, replaced, linked, blocks, mixed, full, kills>>
        /\ load[t].pc = "inspect"
    BY <1>3 DEF Inspect, Goes
  <2>3. CASE Goes(t, "inspect", to)
    <3>1. Saw(t) \in BOOLEAN /\ load[t] \in Loads
      BY DEF Saw, Loads
    <3>2. to \in Loads /\ to = [load[t] EXCEPT !.pc = "entries", !.disk = TRUE,
                                               !.sawMixed = Saw(t)]
      BY <3>1 DEF Loads, PCs
    <3>3. /\ to.pc = "entries" /\ to.inode = load[t].inode
          /\ to.written = load[t].written /\ to.of = load[t].of
      BY <3>1 DEF Loads
    <3>4. Moves(t, to)
      BY <2>2, <2>3 DEF Goes, Moves
    <3> HIDE DEF to
    <3>5. Fits(to)
      BY <1>a, <2>2, <3>2, <3>3 DEF Fits, OpenAt
    <3> QED
      BY <1>d, <3>4, <3>5
  <2> QED
    BY <1>f, <2>1, <2>2, <2>3 DEF PCs, OpenAt
<1>4. ASSUME NEW t \in Threads, ReadEntry(t) PROVE Ranges'
  <2> DEFINE file == blocks[load[t].inode]
             next == Len(load[t].links) + 2
             closed == [load[t] EXCEPT !.pc = "check", !.inode = None]
             to == [load[t] EXCEPT !.links = Append(@, file[next]),
                                   !.sawMixed = Saw(t)]
  <2>1. \/ Goes(t, "entries", [Idle EXCEPT !.pc = "delete"])
        \/ Goes(t, "entries", closed)
        \/ next <= Len(file) /\ Goes(t, "entries", to)
    BY <1>4 DEF ReadEntry, NoGood, Loads
  <2>2. /\ UNCHANGED <<now, page, replaced, linked, blocks, mixed, full, kills>>
        /\ load[t].pc = "entries"
    BY <1>4 DEF ReadEntry, Goes
  <2>3. /\ load[t] \in Loads /\ load[t].links \in Seq(Block)
        /\ load[t].inode \in Inodes /\ file \in Seq(Block)
    BY <2>2, OpenFiles DEF Loads, OpenAt
  <2>4. CASE Goes(t, "entries", closed)
    <3>1. /\ closed \in Loads /\ closed.pc = "check" /\ closed.inode = None
          /\ closed.written = load[t].written /\ closed.of = load[t].of
      BY <2>3 DEF Loads, PCs
    <3>2. Moves(t, closed)
      BY <2>2, <2>4 DEF Goes, Moves
    <3> HIDE DEF closed
    <3>3. Fits(closed)
      BY <1>a, <3>1 DEF Fits, OpenAt
    <3> QED
      BY <1>d, <3>2, <3>3
  <2>5. CASE next <= Len(file) /\ Goes(t, "entries", to)
    <3>1. file[next] \in Block
      <4> HIDE DEF Block
      <4> QED
        BY <2>3, <2>5
    <3>2. Append(load[t].links, file[next]) \in Seq(Block)
      BY <2>3, <3>1
    <3>3. Saw(t) \in BOOLEAN
      BY <2>3 DEF Saw, Loads
    <3>4. /\ to \in Loads /\ to.pc = "entries" /\ to.inode = load[t].inode
          /\ to.written = load[t].written /\ to.of = load[t].of
      <4> HIDE DEF Block
      <4> QED
        BY <2>2, <2>3, <3>2, <3>3 DEF Loads
    <3>5. Moves(t, to)
      BY <2>2, <2>5 DEF Goes, Moves
    <3> HIDE DEF to
    <3>6. Fits(to)
      BY <1>a, <2>2, <3>4 DEF Fits, OpenAt
    <3> QED
      BY <1>d, <3>5, <3>6
  <2> QED
    BY <1>f, <2>1, <2>2, <2>4, <2>5 DEF PCs, OpenAt
<1>5. ASSUME NEW t \in Threads,
             LinkTable_disk_delete(t) \/ FetchFails(t) \/ Forget(t)
      PROVE  Ranges'
  BY <1>5, <1>f DEF LinkTable_disk_delete, FetchFails, Forget, PCs, OpenAt
<1>h. ASSUME NEW t \in Threads, NEW from \in PCs \ OpenAt, NEW label \in PCs \ OpenAt,
             Goes(t, from, [load[t] EXCEPT !.pc = label]),
             UNCHANGED <<now, page, replaced, linked, blocks, mixed, full, kills>>
      PROVE  Ranges'
  <2> DEFINE to == [load[t] EXCEPT !.pc = label]
  <2>1. load[t] \in Loads /\ load[t].pc = from
    BY <1>h DEF Goes
  <2>2. /\ to \in Loads /\ to.pc = label /\ to.inode = load[t].inode
        /\ to.written = load[t].written /\ to.of = load[t].of
    BY <2>1 DEF Loads
  <2>3. Moves(t, to)
    BY <1>h DEF Goes, Moves
  <2> HIDE DEF to
  <2>4. Fits(to)
    BY <1>a, <1>h, <2>1, <2>2 DEF Fits, OpenAt
  <2> QED
    BY <1>d, <2>3, <2>4
<1>6. ASSUME NEW t \in Threads, CheckAge(t) \/ SaveFails(t) PROVE Ranges'
  <2>1. CASE CheckAge(t)
    BY <1>f, <1>h, <2>1 DEF CheckAge, PCs, OpenAt
  <2>2. CASE SaveFails(t)
    BY <1>h, <2>2 DEF SaveFails, PCs, OpenAt
  <2> QED
    BY <1>6, <2>1, <2>2
<1>7. ASSUME NEW t \in Threads, Alloc(t) PROVE Ranges'
  <2> DEFINE to == [Idle EXCEPT !.pc = "fetch", !.time = now]
  <2>1. /\ to \in Loads /\ to.pc = "fetch" /\ to.inode = None
        /\ to.written = 0 /\ to.of = 1
    BY <1>c, BegunIs DEF Begun
  <2>2. Moves(t, to)
    BY <1>7 DEF Alloc, Goes, Moves
  <2> HIDE DEF to
  <2>3. Fits(to)
    BY <2>1, Sizes DEF Fits, OpenAt
  <2> QED
    BY <1>d, <2>2, <2>3
<1>8. ASSUME NEW t \in Threads, Fetch(t) PROVE Ranges'
  <2> DEFINE links == [i \in 1..Size[page] |-> Entry(page, i)]
             to == [load[t] EXCEPT !.pc = "save", !.of = page, !.links = links]
  <2>1. links \in Seq(Block)
    <3>1. \A i \in 1..Size[page] : Entry(page, i) \in Block
      <4>1. \A i \in 1..Size[page] : Entry(page, i) \in Entries
        BY <1>c DEF Entries
      <4> QED
        BY <4>1 DEF Block
    <3>2. Size[page] \in Nat
      BY <1>c, Sizes
    <3> HIDE DEF Block
    <3> QED
      BY <3>1, <3>2
  <2>2. load[t] \in Loads /\ load[t].pc = "fetch" /\ load[t].written = 0
    BY <1>8 DEF Fetch, Goes, OneSave
  <2> HIDE DEF links
  <2>3. /\ to \in Loads /\ to.pc = "save" /\ to.inode = load[t].inode
        /\ to.written = 0 /\ to.of = page
    <3> HIDE DEF Block
    <3> QED
      BY <1>c, <2>1, <2>2 DEF Loads, PCs
  <2>4. Moves(t, to)
    BY <1>8 DEF Fetch, Goes, Moves, links
  <2> HIDE DEF to
  <2>5. Fits(to)
    <3>1. load[t].inode = None
      BY <1>a, <2>2 DEF Fits, OpenAt
    <3>2. Size[page] \in Nat
      BY <1>c, Sizes
    <3>3. 0 \in 0 .. Size[to.of] + 1
      BY <2>3, <3>2
    <3> QED
      BY <2>3, <3>1, <3>3 DEF Fits, OpenAt
  <2> QED
    BY <1>d, <2>4, <2>5
<1>9. ASSUME NEW t \in Threads, SaveClose(t) PROVE Ranges'
  <2> DEFINE to == [load[t] EXCEPT !.pc = "loaded", !.inode = None]
  <2>1. /\ to \in Loads /\ to.pc = "loaded" /\ to.inode = None
        /\ to.written = load[t].written /\ to.of = load[t].of
    BY DEF Loads, PCs
  <2>2. Moves(t, to)
    BY <1>9 DEF SaveClose, Goes, Moves
  <2> HIDE DEF to
  <2>3. Fits(to)
    BY <1>a, <2>1 DEF Fits, OpenAt
  <2> QED
    BY <1>d, <2>2, <2>3
<1>10. ASSUME NEW t \in Threads, SaveOpen(t) PROVE Ranges'
  <2> DEFINE inode == IF linked = None THEN Fresh ELSE linked
             to == [load[t] EXCEPT !.pc = "write", !.inode = inode]
             new == [u \in Threads |->
                       IF u = t THEN to
                       ELSE [load[u] EXCEPT !.cut = @ \/ u \in Reading(inode)]]
  <2>1. inode \in Inodes
    BY <1>c, FreshIs DEF Ranges
  <2>2. inode # None
    BY <2>1 DEF Inodes, None
  <2> HIDE DEF inode
  <2>3. to \in Loads /\ Fits(to)
    <3>1. load[t] \in Loads
      OBVIOUS
    <3>2. /\ to \in Loads /\ to.pc = "write" /\ to.inode = inode
          /\ to.written = load[t].written /\ to.of = load[t].of
      BY <2>1, <3>1 DEF Loads, PCs
    <3> HIDE DEF to
    <3> QED
      BY <1>a, <2>2, <3>2 DEF Fits, OpenAt
  <2>4. ASSUME NEW u \in Threads, u # t
        PROVE  new[u] \in Loads /\ Fits(new[u])
    <3>1. new[u] = [load[u] EXCEPT !.cut = @ \/ u \in Reading(inode)]
      BY <2>4
    <3>2. load[u] \in Loads /\ Fits(load[u])
      BY <1>a
    <3>3. /\ new[u] \in Loads /\ new[u].pc = load[u].pc
          /\ new[u].inode = load[u].inode
          /\ new[u].written = load[u].written /\ new[u].of = load[u].of
      BY <3>1, <3>2 DEF Loads
    <3> QED
      BY <3>2, <3>3 DEF Fits
  <2>5. new[t] = to
    OBVIOUS
  <2> HIDE DEF to
  <2>6. new \in [Threads -> Loads] /\ \A u \in Threads : Fits(new[u])
    <3>1. \A u \in Threads : new[u] \in Loads /\ Fits(new[u])
      BY <2>3, <2>4, <2>5
    <3> QED
      BY <3>1
  <2>7. load' = new /\ linked' = inode /\ blocks' = [blocks EXCEPT ![inode] = <<>>]
        /\ mixed' \in {mixed \ {inode}, mixed \cup {inode}}
        /\ UNCHANGED <<now, page, replaced, full, kills>>
    BY <1>10 DEF SaveOpen, inode, to
  <2> HIDE DEF new
  <2>8. /\ blocks' \in [Inodes -> Seq(Block)]
        /\ \A i \in Inodes : blocks'[i] # <<>> =>
             blocks'[i][1] \in {Hole} \cup Headers
    <3>1. <<>> \in Seq(Block)
      OBVIOUS
    <3>2. blocks' \in [Inodes -> Seq(Block)]
      BY <1>c, <2>7, <3>1
    <3>3. \A i \in Inodes : blocks'[i] = IF i = inode THEN <<>> ELSE blocks[i]
      BY <1>c, <2>1, <2>7
    <3> QED
      BY <1>c, <3>2, <3>3
  <2>9. linked' \in {None} \cup Inodes /\ mixed' \subseteq Inodes
    BY <1>c, <2>1, <2>7
  <2> QED
    BY <1>b, <1>c, <2>6, <2>7, <2>8, <2>9
<1>11. ASSUME NEW t \in Threads, Flush(t) PROVE Ranges'
  <2> DEFINE at == load[t].written + 1
             image == Image(load[t].of, load[t].time)
             to == [load[t] EXCEPT !.written = at]
             inode == load[t].inode
  <2>1. /\ at <= Len(image) /\ load[t].pc = "write" /\ load' = [load EXCEPT ![t] = to]
        /\ blocks' = IF full THEN blocks
                     ELSE [blocks EXCEPT ![inode] = Written(@, at, image[at])]
        /\ UNCHANGED <<now, page, replaced, linked, mixed, full, kills>>
    BY <1>11 DEF Flush, Goes
  <2>2. /\ load[t] \in Loads /\ load[t].written \in Nat /\ load[t].of \in Versions
        /\ load[t].time \in 0..MaxTime
    BY DEF Loads
  <2>3. inode \in Inodes /\ blocks[inode] \in Seq(Block)
    BY <2>1, OpenFiles DEF OpenAt
  <2>4. Size[load[t].of] \in Nat
    BY <2>2, Sizes
  <2>5. /\ at \in Nat \ {0} /\ at <= Size[load[t].of] + 1 /\ image[at] \in Block
        /\ image[1] \in Headers
    <3>1. /\ Len(image) = Size[load[t].of] + 1
          /\ image[1] = Header(load[t].of, load[t].time)
          /\ \A k \in 1..Size[load[t].of] + 1 : image[k] \in Block
      BY <2>2, ImageIs
    <3>2. image[1] \in Headers
      BY <2>2, <3>1 DEF Headers, Header
    <3> HIDE DEF image, Block
    <3>3. at \in 1..Size[load[t].of] + 1
      BY <2>1, <2>2, <2>4, <3>1
    <3> QED
      BY <2>2, <2>4, <3>1, <3>2, <3>3
  <2> HIDE DEF image
  <2>6. to \in Loads /\ Fits(to)
    <3>1. /\ to \in Loads /\ to.pc = "write" /\ to.inode = inode
          /\ to.written = at /\ to.of = load[t].of
      BY <2>1, <2>2, <2>5 DEF Loads
    <3> HIDE DEF to
    <3>2. inode # None
      BY <2>3 DEF Inodes, None
    <3> QED
      BY <2>2, <2>4, <2>5, <3>1, <3>2 DEF Fits, OpenAt
  <2> HIDE DEF to, at
  <2>7. PICK new \in [Threads -> Loads] :
          new = load' /\ \A u \in Threads : Fits(new[u])
    <3> DEFINE new == [load EXCEPT ![t] = to]
    <3>1. new \in [Threads -> Loads]
      BY <2>6
    <3>2. \A u \in Threads : new[u] = IF u = t THEN to ELSE load[u]
      OBVIOUS
    <3>3. load' = new
      BY <2>1
    <3> HIDE DEF new
    <3> QED
      BY <1>a, <2>6, <3>1, <3>2, <3>3
  <2>8. /\ blocks' \in [Inodes -> Seq(Block)]
        /\ \A i \in Inodes : blocks'[i] # <<>> =>
             blocks'[i][1] \in {Hole} \cup Headers
    <3>1. CASE full
      BY <1>c, <2>1, <3>1
    <3>2. CASE ~full
      <4> DEFINE file == Written(blocks[inode], at, image[at])
      <4>1. /\ file \in Seq(Block) /\ Len(file) >= 1
            /\ file[1] = IF 1 = at THEN image[at]
                         ELSE IF 1 <= Len(blocks[inode]) THEN blocks[inode][1]
                         ELSE Hole
        <5>1. /\ file \in Seq(Block)
              /\ Len(file) = IF at > Len(blocks[inode]) THEN at
                             ELSE Len(blocks[inode])
              /\ \A i \in 1..Len(file) :
                   file[i] = IF i = at THEN image[at]
                             ELSE IF i <= Len(blocks[inode]) THEN blocks[inode][i]
                             ELSE Hole
          <6> DEFINE old == blocks[inode]
                     block == image[at]
          <6>1. old \in Seq(Block) /\ at \in Nat \ {0} /\ block \in Block
            BY <2>3, <2>5
          <6> HIDE DEF old, block
          <6>2. /\ Written(old, at, block) \in Seq(Block)
                /\ Len(Written(old, at, block)) =
                     IF at > Len(old) THEN at ELSE Len(old)
                /\ \A i \in 1..Len(Written(old, at, block)) :
                     Written(old, at, block)[i] =
                       IF i = at THEN block ELSE IF i <= Len(old) THEN old[i]
                                                                 ELSE Hole
            <7>1. IsWritten(Written(old, at, block), old, at, block)
              BY <6>1, WrittenIs
            <7> QED
              BY <7>1 DEF IsWritten
          <6> QED
            BY <6>2 DEF old, block
        <5>2. Len(blocks[inode]) \in Nat /\ Len(file) >= 1
          BY <2>3, <2>5, <5>1
        <5> HIDE DEF file
        <5> QED
          BY <5>1, <5>2
      <4> HIDE DEF file
      <4>2. file[1] \in {Hole} \cup Headers
        <5>1. 1 <= Len(blocks[inode]) => blocks[inode] # <<>>
          BY <2>3
        <5> QED
          BY <1>c, <2>3, <2>5, <4>1, <5>1
      <4>3. blocks' = [blocks EXCEPT ![inode] = file]
        BY <2>1, <3>2 DEF file
      <4>4. \A i \in Inodes : blocks'[i] = IF i = inode THEN file ELSE blocks[i]
        BY <1>c, <2>3, <4>3
      <4>5. blocks' \in [Inodes -> Seq(Block)]
        BY <1>c, <4>1, <4>3
      <4> QED
        BY <1>c, <4>2, <4>4, <4>5
    <3> QED
      BY <3>1, <3>2
  <2> QED
    BY <1>b, <1>c, <2>1, <2>7, <2>8
<1>12. CASE Tick \/ PageChanges \/ DiskFills
  <2>1. /\ now' \in 0..MaxTime /\ full' \in BOOLEAN
        /\ UNCHANGED <<load, linked, blocks, mixed, kills>>
    <3>1. CASE Tick
      BY <1>c, <3>1, Sizes DEF Tick
    <3>2. CASE PageChanges \/ DiskFills
      BY <1>c, <3>2 DEF PageChanges, DiskFills
    <3> QED
      BY <1>12, <3>1, <3>2
  <2>2. page' \in Versions /\ replaced' \in [Versions -> 0..Never]
    <3>1. CASE PageChanges
      <4>1. page' = page + 1 /\ page < Len(Size) /\ now \in 0..Never
        BY <1>c, <3>1, Sizes DEF PageChanges, Never
      <4>2. replaced' = [replaced EXCEPT ![page] = now]
        BY <3>1 DEF PageChanges
      <4> QED
        BY <1>c, <4>1, <4>2, Sizes
    <3>2. CASE UNCHANGED <<page, replaced>>
      BY <1>c, <3>2
    <3> QED
      BY <1>12, <3>1, <3>2 DEF Tick, DiskFills
  <2> QED
    BY <1>a, <1>b, <1>c, <2>1, <2>2
<1>13. CASE Kill
  <2> DEFINE new == [t \in Threads |-> Idle]
  <2>1. Idle \in Loads /\ Fits(Idle)
    BY <1>e, IdleIs DEF PCs, OpenAt, Blank
  <2>2. new \in [Threads -> Loads] /\ \A t \in Threads : Fits(new[t])
    <3>1. \A t \in Threads : new[t] = Idle
      OBVIOUS
    <3> QED
      BY <2>1, <3>1
  <2>3. load' = new /\ kills' \in 0..MaxKills /\ full' \in BOOLEAN
        /\ UNCHANGED <<now, page, replaced, linked, blocks, mixed>>
    <3>1. kills' \in 0..MaxKills
      BY <1>13, <1>c, Sizes DEF Kill
    <3> QED
      BY <1>13, <3>1 DEF Kill
  <2> HIDE DEF new
  <2> QED
    BY <1>b, <1>c, <2>2, <2>3
<1>14. ASSUME NEW t \in Threads, ReadBuffered(t) PROVE Ranges'
  <2> DEFINE at == Len(load[t].links) + 1
  <2>1. PICK link \in {Entry(load[t].of, at), Blend(at)} :
          Goes(t, "entries", [load[t] EXCEPT !.links = Append(@, link),
                                             !.sawMixed = Saw(t)])
    BY <1>14 DEF ReadBuffered
  <2> DEFINE to == [load[t] EXCEPT !.links = Append(@, link), !.sawMixed = Saw(t)]
  <2>2. /\ UNCHANGED <<now, page, replaced, linked, blocks, mixed, full, kills>>
        /\ load[t].pc = "entries" /\ at <= Size[load[t].of]
    BY <1>14 DEF ReadBuffered, Goes
  <2>3. /\ load[t] \in Loads /\ load[t].links \in Seq(Block)
        /\ load[t].of \in Versions
    BY DEF Loads
  <2>4. at \in Nat /\ at >= 1
    <3> HIDE DEF Block
    <3> QED
      BY <2>3
  <2>5. link \in Block
    <3>1. at \in 1..Size[load[t].of]
      BY <2>2, <2>3, <2>4, Sizes
    <3> HIDE DEF at
    <3> QED
      <4>1. Entry(load[t].of, at) \in Entries
        BY <2>3, <3>1 DEF Entries
      <4>2. Blend(at) \in Block
        BY <2>4 DEF Block, Blend
      <4> QED
        BY <2>1, <4>1, <4>2 DEF Block
  <2>6. /\ to \in Loads /\ to.pc = "entries" /\ to.inode = load[t].inode
        /\ to.written = load[t].written /\ to.of = load[t].of
    <3> HIDE DEF Block
    <3>1. Append(load[t].links, link) \in Seq(Block) /\ Saw(t) \in BOOLEAN
      BY <2>3, <2>5 DEF Saw, Loads
    <3> QED
      BY <2>2, <2>3, <3>1 DEF Loads
  <2>7. Moves(t, to)
    BY <2>1, <2>2 DEF Goes, Moves
  <2> HIDE DEF to
  <2>8. Fits(to)
    BY <1>a, <2>2, <2>6 DEF Fits, OpenAt
  <2> QED
    BY <1>d, <2>7, <2>8
<1>15. CASE UNCHANGED vars
  BY <1>15, <1>a, <1>b, <1>c DEF vars
<1> QED
  BY <1>1, <1>2, <1>3, <1>4, <1>5, <1>6, <1>7, <1>8, <1>9, <1>10, <1>11, <1>12,
     <1>13, <1>14, <1>15
  DEF Next

-----------------------------------------------------------------------------
(* Age. *)

\* The numbers that dates are compared with.
LEMMA Numbers ==
  ASSUME Ranges
  PROVE  /\ now \in Nat /\ page \in Nat /\ Never \in Nat /\ now < Never
         /\ \A v \in Versions : replaced[v] \in Nat
         /\ \A t \in Threads : load[t].time \in Nat /\ load[t].of \in Versions
         /\ page \in Versions /\ \A v \in Versions : v \in Nat
<1> /\ now \in 0..MaxTime /\ page \in Versions /\ MaxTime \in Nat
    /\ replaced \in [Versions -> 0..Never] /\ load \in [Threads -> Loads]
  BY Sizes DEF Ranges, TypeOK
<1>1. \A t \in Threads : load[t].time \in 0..MaxTime /\ load[t].of \in Versions
  BY DEF Loads
<1> QED
  BY <1>1, Sizes DEF Never

\* index_time is set before the page is asked for.
LEMMA DatedStep == ASSUME Ranges, Dated, [Next]_vars PROVE Dated'
<1> DEFINE At(to) == /\ to.time <= now
                     /\ to.pc # "fetch" => to.time <= replaced[to.of]
<1>a. /\ load \in [Threads -> Loads] /\ blocks \in [Inodes -> Seq(Block)]
      /\ replaced \in [Versions -> 0..Never]
      /\ \A i \in Inodes : blocks[i] # <<>> => blocks[i][1] \in {Hole} \cup Headers
  BY DEF Ranges, TypeOK
<1>b. \A t \in Threads : At(load[t])
  BY DEF Dated
<1>c. ASSUME NEW t \in Threads, NEW to, At(to), Moves(t, to) PROVE Dated'
  <2>1. \A u \in Threads : load'[u] = IF u = t THEN to ELSE load[u]
    BY <1>a, <1>c DEF Moves
  <2>2. \A u \in Threads : At(load'[u])
    BY <1>b, <1>c, <2>1
  <2> QED
    BY <1>c, <2>2 DEF Dated, Moves
<1>d. ASSUME NEW to, NEW label, Blank(to, label) PROVE At(to)
  BY <1>d, Numbers, Sizes DEF Blank
<1>e. ASSUME NEW t \in Threads, NEW from, NEW to, Goes(t, from, to), At(to),
             linked' \in {None, linked},
             UNCHANGED <<now, page, replaced, blocks, mixed, full, kills>>
      PROVE  Dated'
  BY <1>c, <1>e DEF Goes, Moves
<1>f. ASSUME NEW t \in Threads, NEW from, NEW label \in PCs,
             \/ Goes(t, from, [Idle EXCEPT !.pc = label])
             \/ label = "idle" /\ Goes(t, from, Idle),
             linked' \in {None, linked},
             UNCHANGED <<now, page, replaced, blocks, mixed, full, kills>>
      PROVE  Dated'
  BY <1>d, <1>e, <1>f, IdleIs
<1>g. ASSUME NEW to \in Loads, NEW t \in Threads, to.time = load[t].time,
             to.of = load[t].of, load[t].pc # "fetch"
      PROVE  At(to)
  BY <1>b, <1>g
<1> HIDE DEF At
<1>1. ASSUME NEW t \in Threads, DiskOpen(t) PROVE Dated'
  <2>1. CASE linked = None
    BY <1>1, <1>f, <2>1 DEF DiskOpen, PCs
  <2>2. CASE linked # None
    <3> DEFINE to == [Idle EXCEPT !.pc = "header", !.inode = linked]
    <3>1. to.time = 0 /\ to.of = 1
      BY DEF Idle
    <3>2. Goes(t, "idle", to)
      BY <1>1, <2>2 DEF DiskOpen
    <3> HIDE DEF to
    <3>3. At(to)
      BY <3>1, Numbers, Sizes DEF At
    <3> QED
      BY <1>1, <1>e, <3>2, <3>3 DEF DiskOpen
  <2> QED
    BY <2>1, <2>2
<1>2. ASSUME NEW t \in Threads, ReadHeader(t) PROVE Dated'
  <2> DEFINE file == blocks[load[t].inode]
             to == [load[t] EXCEPT !.pc = "inspect", !.of = file[1].of,
                                   !.time = file[1].time, !.sawMixed = Saw(t)]
  <2>1. CASE file = <<>> \/ file[1] = Hole
    BY <1>2, <1>f, <2>1 DEF ReadHeader, NoGood, PCs
  <2>2. CASE ~(file = <<>> \/ file[1] = Hole)
    <3>1. load[t] \in Loads /\ load[t].inode \in Inodes
      BY <1>2, <1>a, OpenFiles DEF ReadHeader, Goes, OpenAt
    <3>2. file[1].time <= now /\ file[1].time <= replaced[file[1].of]
      BY <2>2, <3>1 DEF Dated
    <3>3. to.time = file[1].time /\ to.of = file[1].of
      BY <3>1 DEF Loads
    <3>4. Goes(t, "header", to)
      BY <1>2, <2>2 DEF ReadHeader
    <3> HIDE DEF to
    <3>5. At(to)
      BY <3>2, <3>3 DEF At
    <3> QED
      BY <1>2, <1>e, <3>4, <3>5 DEF ReadHeader
  <2> QED
    BY <2>1, <2>2
<1>h. ASSUME NEW t \in Threads, NEW from \in PCs \ {"fetch"}, NEW to \in Loads,
             Goes(t, from, to), to.time = load[t].time, to.of = load[t].of,
             linked' \in {None, linked},
             UNCHANGED <<now, page, replaced, blocks, mixed, full, kills>>
      PROVE  Dated'
  <2>1. load[t].pc # "fetch"
    BY <1>h DEF Goes
  <2> QED
    BY <1>e, <1>g, <1>h, <2>1
<1>3. ASSUME NEW t \in Threads, Inspect(t) PROVE Dated'
  <2> DEFINE to == [load[t] EXCEPT !.pc = "entries", !.disk = TRUE,
                                   !.sawMixed = Saw(t)]
  <2>1. \/ Goes(t, "inspect", [Idle EXCEPT !.pc = "delete"])
        \/ Goes(t, "inspect", to)
    BY <1>3 DEF Inspect, NoGood
  <2>2. UNCHANGED <<now, page, replaced, linked, blocks, mixed, full, kills>>
    BY <1>3 DEF Inspect
  <2>3. CASE Goes(t, "inspect", to)
    <3>1. Saw(t) \in BOOLEAN /\ load[t] \in Loads
      BY <1>a DEF Saw, Loads
    <3>2. to \in Loads /\ to.time = load[t].time /\ to.of = load[t].of
      BY <3>1 DEF Loads, PCs
    <3> HIDE DEF to
    <3> QED
      BY <1>h, <2>2, <2>3, <3>2 DEF PCs
  <2> QED
    BY <1>f, <2>1, <2>2, <2>3 DEF PCs
<1>4. ASSUME NEW t \in Threads, ReadEntry(t) \/ ReadBuffered(t) PROVE Dated'
  <2>1. PICK to : /\ Goes(t, "entries", to)
                  /\ \/ to = [Idle EXCEPT !.pc = "delete"]
                     \/ to = [load[t] EXCEPT !.pc = "check", !.inode = None]
                     \/ \E links, saw : to = [load[t] EXCEPT !.links = links,
                                                             !.sawMixed = saw]
    BY <1>4 DEF ReadEntry, ReadBuffered, NoGood
  <2>2. /\ UNCHANGED <<now, page, replaced, linked, blocks, mixed, full, kills>>
        /\ load[t].pc = "entries"
    BY <1>4 DEF ReadEntry, ReadBuffered, Goes
  <2>3. CASE to # [Idle EXCEPT !.pc = "delete"]
    <3>1. to.time = load[t].time /\ to.of = load[t].of
      BY <1>a, <2>1, <2>3 DEF Loads
    <3>2. At(to)
      BY <1>b, <2>2, <3>1 DEF At
    <3> QED
      BY <1>e, <2>1, <2>2, <3>2
  <2>4. CASE to = [Idle EXCEPT !.pc = "delete"]
    <3>1. Goes(t, "entries", [Idle EXCEPT !.pc = "delete"])
      BY <2>1, <2>4
    <3> QED
      BY <1>f, <2>2, <3>1 DEF PCs
  <2> QED
    BY <2>3, <2>4
<1>5. ASSUME NEW t \in Threads,
             LinkTable_disk_delete(t) \/ FetchFails(t) \/ Forget(t)
      PROVE  Dated'
  BY <1>5, <1>f DEF LinkTable_disk_delete, FetchFails, Forget, PCs
<1>6. ASSUME NEW t \in Threads, CheckAge(t) \/ SaveFails(t) \/ SaveClose(t)
      PROVE  Dated'
  <2>1. ASSUME NEW from \in PCs \ {"fetch"},
               \/ Goes(t, from, [load[t] EXCEPT !.pc = "loaded"])
               \/ Goes(t, from, [load[t] EXCEPT !.pc = "loaded", !.inode = None]),
               UNCHANGED <<now, page, replaced, linked, blocks, mixed, full, kills>>
        PROVE  Dated'
    <3>1. /\ [load[t] EXCEPT !.pc = "loaded"] \in Loads
          /\ [load[t] EXCEPT !.pc = "loaded"].time = load[t].time
          /\ [load[t] EXCEPT !.pc = "loaded"].of = load[t].of
      BY <1>a DEF Loads, PCs
    <3>2. /\ [load[t] EXCEPT !.pc = "loaded", !.inode = None] \in Loads
          /\ [load[t] EXCEPT !.pc = "loaded", !.inode = None].time = load[t].time
          /\ [load[t] EXCEPT !.pc = "loaded", !.inode = None].of = load[t].of
      BY <1>a DEF Loads, PCs
    <3> QED
      BY <1>h, <2>1, <3>1, <3>2
  <2>2. CASE CheckAge(t)
    BY <1>f, <2>1, <2>2 DEF CheckAge, PCs
  <2>3. CASE SaveFails(t) \/ SaveClose(t)
    BY <2>1, <2>3 DEF SaveFails, SaveClose, PCs
  <2> QED
    BY <1>6, <2>2, <2>3
<1>7. ASSUME NEW t \in Threads, Alloc(t) PROVE Dated'
  <2> DEFINE to == [Idle EXCEPT !.pc = "fetch", !.time = now]
  <2>1. to.pc = "fetch" /\ to.time = now
    BY DEF Idle
  <2>2. Goes(t, "alloc", to)
    BY <1>7 DEF Alloc
  <2> HIDE DEF to
  <2>3. At(to)
    BY <2>1, Numbers DEF At
  <2> QED
    BY <1>7, <1>e, <2>2, <2>3 DEF Alloc
<1>8. ASSUME NEW t \in Threads, Fetch(t) PROVE Dated'
  <2>1. PICK to : /\ Goes(t, "fetch", to)
                  /\ \E links : to = [load[t] EXCEPT !.pc = "save", !.of = page,
                                                     !.links = links]
    BY <1>8 DEF Fetch
  <2>2. to.time = load[t].time /\ to.of = page
    BY <1>a, <2>1 DEF Loads
  <2>3. load[t].time <= now /\ replaced[page] = Never
    BY Numbers DEF Dated
  <2>4. At(to)
    BY <2>2, <2>3, Numbers DEF At
  <2> QED
    BY <1>8, <1>e, <2>1, <2>4 DEF Fetch
<1>9. ASSUME NEW t \in Threads, SaveOpen(t) PROVE Dated'
  <2> DEFINE inode == IF linked = None THEN Fresh ELSE linked
  <2>1. /\ \A u \in Threads : /\ load'[u].time = load[u].time
                              /\ load'[u].of = load[u].of
                              /\ load'[u].pc = "fetch" => load[u].pc = "fetch"
        /\ load[t].pc = "save"
    BY <1>9, <1>a DEF SaveOpen, Loads
  <2>2. \A u \in Threads : load[u].pc = "fetch" => load'[u].pc = "fetch"
    BY <1>9, <1>a DEF SaveOpen, Loads
  <2>3. \A u \in Threads : At(load'[u])
    BY <1>b, <2>1, <2>2 DEF At
  <2>4. \A i \in Inodes : blocks'[i] # <<>> => blocks'[i] = blocks[i]
    BY <1>9, <1>a DEF SaveOpen
  <2>5. UNCHANGED <<now, page, replaced>>
    BY <1>9 DEF SaveOpen
  <2> QED
    BY <2>3, <2>4, <2>5 DEF Dated, At
<1>10. ASSUME NEW t \in Threads, Flush(t) PROVE Dated'
  <2> DEFINE at == load[t].written + 1
             image == Image(load[t].of, load[t].time)
             inode == load[t].inode
  <2>1. /\ load[t].pc = "write" /\ load' = [load EXCEPT ![t].written = at]
        /\ at <= Len(image)
        /\ blocks' = IF full THEN blocks
                     ELSE [blocks EXCEPT ![inode] = Written(@, at, image[at])]
        /\ UNCHANGED <<now, page, replaced>>
    BY <1>10 DEF Flush, Goes
  <2>2. \A u \in Threads : /\ load'[u].time = load[u].time
                           /\ load'[u].of = load[u].of
                           /\ load'[u].pc = load[u].pc
    BY <1>a, <2>1 DEF Loads
  <2>3. /\ load[t].of \in Versions /\ load[t].time \in 0..MaxTime
        /\ load[t].written \in Nat /\ inode \in Inodes
        /\ blocks[inode] \in Seq(Block)
    BY <1>a, <2>1, OpenFiles DEF Loads, OpenAt
  <2>4. /\ Len(image) = Size[load[t].of] + 1
        /\ image[1] = Header(load[t].of, load[t].time)
        /\ at <= Len(image) => image[at] \in Block
    <3>1. /\ Len(image) = Size[load[t].of] + 1
          /\ image[1] = Header(load[t].of, load[t].time)
          /\ \A k \in 1..Size[load[t].of] + 1 : image[k] \in Block
      BY <2>3, ImageIs
    <3>2. Size[load[t].of] \in Nat
      BY <2>3, Sizes
    <3> HIDE DEF image, Block
    <3> QED
      BY <2>3, <3>1, <3>2
  <2> HIDE DEF image
  <2>5. ASSUME NEW i \in Inodes, blocks'[i] # <<>>, blocks'[i][1] # Hole
        PROVE  /\ blocks'[i][1].time <= now
               /\ blocks'[i][1].time <= replaced[blocks'[i][1].of]
    <3>1. CASE blocks'[i] = blocks[i]
      BY <2>5, <3>1 DEF Dated
    <3>2. CASE blocks'[i] # blocks[i]
      <4> DEFINE old == blocks[inode]
                 block == image[at]
                 file == Written(old, at, block)
      <4>1. i = inode /\ blocks'[i] = file
        BY <1>a, <2>1, <2>3, <3>2
      <4>2. old \in Seq(Block) /\ at \in Nat \ {0} /\ block \in Block
        BY <2>1, <2>3, <2>4
      <4> HIDE DEF old, block, at
      <4>3. /\ Len(file) = IF at > Len(old) THEN at ELSE Len(old)
            /\ \A k \in 1..Len(file) :
                 file[k] = IF k = at THEN block ELSE IF k <= Len(old) THEN old[k]
                                                                      ELSE Hole
        <5>1. IsWritten(file, old, at, block)
          BY <4>2, WrittenIs
        <5> HIDE DEF file
        <5> QED
          BY <5>1 DEF IsWritten
      <4> HIDE DEF file
      <4>4. file[1] = IF 1 = at THEN block ELSE IF 1 <= Len(old) THEN old[1]
                                                                  ELSE Hole
        BY <4>2, <4>3
      <4>5. CASE at = 1
        <5>1. file[1] = Header(load[t].of, load[t].time)
          BY <2>4, <4>4, <4>5 DEF block
        <5>2. load[t].time <= now /\ load[t].time <= replaced[load[t].of]
          BY <2>1 DEF Dated
        <5> QED
          BY <4>1, <5>1, <5>2 DEF Header
      <4>6. CASE at # 1
        <5>1. old # <<>> /\ file[1] = old[1] /\ old[1] # Hole
          BY <2>5, <4>1, <4>2, <4>4, <4>6
        <5> QED
          BY <2>3, <4>1, <5>1 DEF Dated, old
      <4> QED
        BY <4>5, <4>6
    <3> QED
      BY <3>1, <3>2
  <2> QED
    BY <1>b, <2>1, <2>2, <2>5 DEF Dated
<1>11. CASE Tick
  <2>1. now' = now + 1 /\ UNCHANGED <<page, replaced, blocks, load>>
    BY <1>11 DEF Tick
  <2>2. \A time \in Nat : time <= now => time <= now'
    BY <2>1, Numbers
  <2>3. ASSUME NEW i \in Inodes, blocks[i] # <<>>, blocks[i][1] # Hole
        PROVE  blocks[i][1].time <= now'
    <3>1. blocks[i][1].time \in Nat
      BY <1>a, <2>3, Sizes DEF Headers
    <3> QED
      BY <2>2, <2>3, <3>1 DEF Dated
  <2>4. \A t \in Threads : load[t].time <= now'
    BY <2>2, Numbers DEF Dated
  <2> QED
    BY <2>1, <2>3, <2>4 DEF Dated
<1>12. CASE PageChanges
  <2>1. /\ page' = page + 1 /\ UNCHANGED <<now, load, blocks>>
        /\ \A v \in Versions : replaced'[v] = IF v = page THEN now ELSE replaced[v]
    BY <1>12, <1>a DEF PageChanges
  <2>2. \A v \in Versions : v >= page' => replaced'[v] = Never
    BY <2>1, Numbers DEF Dated
  <2>3. ASSUME NEW v \in Versions, NEW time, time <= now, time <= replaced[v]
        PROVE  time <= replaced'[v]
    BY <2>1, <2>3
  <2>4. ASSUME NEW i \in Inodes, blocks[i] # <<>>, blocks[i][1] # Hole
        PROVE  /\ blocks[i][1].time <= now
               /\ blocks[i][1].time <= replaced'[blocks[i][1].of]
    <3>1. blocks[i][1].of \in Versions
      BY <1>a, <2>4 DEF Headers
    <3> QED
      BY <2>3, <2>4, <3>1 DEF Dated
  <2>5. ASSUME NEW t \in Threads
        PROVE  /\ load[t].time <= now
               /\ load[t].pc # "fetch" => load[t].time <= replaced'[load[t].of]
    BY <2>3, Numbers DEF Dated
  <2> QED
    BY <2>1, <2>2, <2>4, <2>5 DEF Dated
<1>13. CASE DiskFills
  BY <1>13 DEF DiskFills, Dated
<1>14. CASE Kill
  <2>1. At(Idle)
    BY <1>d, IdleIs
  <2>2. \A t \in Threads : load'[t] = Idle
    BY <1>14 DEF Kill
  <2>3. \A t \in Threads : At(load'[t])
    BY <2>1, <2>2
  <2> QED
    BY <1>14, <2>3 DEF Kill, Dated, At
<1>15. CASE UNCHANGED vars
  BY <1>15 DEF vars, Dated
<1> QED
  BY <1>1, <1>2, <1>3, <1>4, <1>5, <1>6, <1>7, <1>8, <1>9, <1>10, <1>11, <1>12,
     <1>13, <1>14, <1>15
  DEF Next

-----------------------------------------------------------------------------
(* Files. *)

\* While one save at a time is at a file, it is what that save has written.
LEMMA FilesStep ==
  ASSUME Ranges, Unmixed, OneSave, [Next]_vars PROVE Unmixed' /\ OneSave'
<1> DEFINE Of(to, t) ==
      /\ to.pc \notin {"write", "loaded"} => to.written = 0
      /\ to.pc = "write" => /\ load[t].pc = "write" /\ to.inode = load[t].inode
                            /\ to.written = load[t].written
                            /\ to.of = load[t].of /\ to.time = load[t].time
<1>a. /\ load \in [Threads -> Loads] /\ blocks \in [Inodes -> Seq(Block)]
      /\ mixed \subseteq Inodes /\ full \in BOOLEAN
  BY DEF Ranges, TypeOK
<1>b. \A t \in Threads : load[t].pc = "write" => load[t].inode \in Inodes
  BY OpenFiles DEF OpenAt
<1>c. ASSUME NEW new, load' = new, \A u \in Threads : Of(new[u], u),
             UNCHANGED <<blocks, mixed>>, full' \in {TRUE, full}
      PROVE  Unmixed' /\ OneSave'
  <2>1. Unmixed'
    BY <1>c DEF Unmixed, WholeFile
  <2>2. ASSUME NEW t \in Threads, new[t].pc = "write", new[t].inode \notin mixed
        PROVE  LET file == blocks[new[t].inode]
               IN  /\ Saving(new[t].inode)' = {t}
                   /\ Len(file) <= new[t].written
                   /\ ~full' => Len(file) = new[t].written
                   /\ file # <<>> => file[1] = Header(new[t].of, new[t].time)
    <3>1. /\ load[t].pc = "write" /\ new[t].inode = load[t].inode
          /\ new[t].written = load[t].written
          /\ new[t].of = load[t].of /\ new[t].time = load[t].time
      BY <1>c, <2>2
    <3>2. Saving(load[t].inode) = {t}
      BY <2>2, <3>1 DEF OneSave
    <3>3. Saving(new[t].inode)' \subseteq Saving(load[t].inode)
      BY <1>c, <3>1 DEF Saving
    <3>4. t \in Saving(new[t].inode)'
      BY <1>c, <2>2 DEF Saving
    <3>5. /\ Len(blocks[load[t].inode]) <= load[t].written
          /\ ~full => Len(blocks[load[t].inode]) = load[t].written
          /\ blocks[load[t].inode] # <<>> =>
               blocks[load[t].inode][1] = Header(load[t].of, load[t].time)
      BY <2>2, <3>1 DEF OneSave
    <3>6. Saving(new[t].inode)' = {t}
      BY <3>2, <3>3, <3>4
    <3>7. ~full' => ~full
      BY <1>a, <1>c
    <3> QED
      BY <3>1, <3>5, <3>6, <3>7
  <2> QED
    BY <1>c, <2>1, <2>2 DEF OneSave
<1>d. ASSUME NEW t \in Threads, NEW from, NEW to, Goes(t, from, to), Of(to, t),
             linked' \in {None, linked},
             UNCHANGED <<now, page, replaced, blocks, mixed, full, kills>>
      PROVE  Unmixed' /\ OneSave'
  <2>1. \A u \in Threads : load'[u] = IF u = t THEN to ELSE load[u]
    BY <1>a, <1>d DEF Goes
  <2>2. \A u \in Threads : Of(load[u], u)
    BY DEF OneSave
  <2>3. \A u \in Threads : Of(load'[u], u)
    BY <1>d, <2>1, <2>2
  <2> HIDE DEF Of
  <2> QED
    BY <1>c, <1>d, <2>3
<1>e. ASSUME NEW t \in Threads, NEW from, NEW label \in PCs \ {"write"},
             \/ Goes(t, from, [Idle EXCEPT !.pc = label])
             \/ label = "idle" /\ Goes(t, from, Idle),
             linked' \in {None, linked},
             UNCHANGED <<now, page, replaced, blocks, mixed, full, kills>>
      PROVE  Unmixed' /\ OneSave'
  <2>1. PICK to : Goes(t, from, to) /\ Blank(to, label)
    BY <1>e, IdleIs
  <2> QED
    BY <1>d, <1>e, <2>1 DEF Blank
<1>f. ASSUME NEW t \in Threads, NEW to \in Loads, to.pc # "write",
             to.written = load[t].written, load[t].pc \notin {"write", "loaded"}
      PROVE  Of(to, t)
  BY <1>f DEF OneSave
<1> HIDE DEF Of
<1>1. ASSUME NEW t \in Threads, DiskOpen(t) PROVE Unmixed' /\ OneSave'
  <2>1. CASE linked = None
    BY <1>1, <1>e, <2>1 DEF DiskOpen, PCs
  <2>2. CASE linked # None
    <3> DEFINE to == [Idle EXCEPT !.pc = "header", !.inode = linked]
    <3>1. to.pc = "header" /\ to.written = 0
      BY DEF Idle
    <3>2. Goes(t, "idle", to)
      BY <1>1, <2>2 DEF DiskOpen
    <3> HIDE DEF to
    <3>3. Of(to, t)
      BY <3>1 DEF Of
    <3> QED
      BY <1>1, <1>d, <3>2, <3>3 DEF DiskOpen
  <2> QED
    BY <2>1, <2>2
<1>g. ASSUME NEW t \in Threads, NEW from, NEW to, Goes(t, from, to),
             to.written = 0, to.pc # "write",
             UNCHANGED <<now, page, replaced, linked, blocks, mixed, full, kills>>
      PROVE  Unmixed' /\ OneSave'
  BY <1>d, <1>g DEF Of
<1>2. ASSUME NEW t \in Threads, ReadHeader(t) \/ Inspect(t) \/ ReadEntry(t) \/ ReadBuffered(t)
      PROVE  Unmixed' /\ OneSave'
  <2> DEFINE file == blocks[load[t].inode]
             links == Append(load[t].links, file[Len(load[t].links) + 2])
             header == [load[t] EXCEPT !.pc = "inspect", !.of = file[1].of,
                                       !.time = file[1].time, !.sawMixed = Saw(t)]
             sized == [load[t] EXCEPT !.pc = "entries", !.disk = TRUE,
                                      !.sawMixed = Saw(t)]
             closed == [load[t] EXCEPT !.pc = "check", !.inode = None]
             more == [load[t] EXCEPT !.links = links, !.sawMixed = Saw(t)]
             rest(link) == [load[t] EXCEPT !.links = Append(@, link),
                                           !.sawMixed = Saw(t)]
  <2>1. /\ load[t].pc \in {"header", "inspect", "entries"}
        /\ UNCHANGED <<now, page, replaced, linked, blocks, mixed, full, kills>>
    BY <1>2 DEF ReadHeader, Inspect, ReadEntry, ReadBuffered, Goes
  <2>2. load[t].written = 0
    BY <2>1 DEF OneSave
  <2>3. /\ header.written = 0 /\ header.pc = "inspect"
        /\ sized.written = 0 /\ sized.pc = "entries"
        /\ closed.written = 0 /\ closed.pc = "check"
        /\ more.written = 0 /\ more.pc = load[t].pc
        /\ \A link : rest(link).written = 0 /\ rest(link).pc = load[t].pc
    BY <1>a, <2>2 DEF Loads
  <2>4. \E from :
          \/ Goes(t, from, [Idle EXCEPT !.pc = "delete"])
          \/ Goes(t, from, header) \/ Goes(t, from, sized)
          \/ Goes(t, from, closed) \/ Goes(t, from, more)
          \/ \E link : Goes(t, from, rest(link))
    <3>1. CASE ReadHeader(t) \/ Inspect(t) \/ ReadEntry(t)
      BY <3>1, <1>a DEF ReadHeader, Inspect, ReadEntry, NoGood, Loads
    <3>2. CASE ReadBuffered(t)
      BY <3>2 DEF ReadBuffered
    <3> QED
      BY <1>2, <3>1, <3>2
  <2> HIDE DEF header, sized, closed, more, rest
  <2> QED
    BY <1>e, <1>g, <2>1, <2>3, <2>4 DEF PCs
<1>3. ASSUME NEW t \in Threads,
             LinkTable_disk_delete(t) \/ FetchFails(t) \/ Forget(t)
      PROVE  Unmixed' /\ OneSave'
  BY <1>3, <1>e DEF LinkTable_disk_delete, FetchFails, Forget, PCs
<1>4. ASSUME NEW t \in Threads, CheckAge(t) \/ SaveFails(t) \/ SaveClose(t)
      PROVE  Unmixed' /\ OneSave'
  <2>1. ASSUME NEW from,
               \/ Goes(t, from, [load[t] EXCEPT !.pc = "loaded"])
               \/ Goes(t, from, [load[t] EXCEPT !.pc = "loaded", !.inode = None]),
               UNCHANGED <<now, page, replaced, linked, blocks, mixed, full, kills>>
        PROVE  Unmixed' /\ OneSave'
    <3>0. /\ [load[t] EXCEPT !.pc = "loaded"].pc = "loaded"
          /\ [load[t] EXCEPT !.pc = "loaded", !.inode = None].pc = "loaded"
      BY <1>a DEF Loads
    <3>1. PICK to : Goes(t, from, to) /\ to.pc = "loaded"
      BY <2>1, <3>0
    <3>2. Of(to, t)
      BY <3>1 DEF Of
    <3> QED
      BY <1>d, <2>1, <3>1, <3>2
  <2>2. CASE CheckAge(t)
    BY <1>e, <2>1, <2>2 DEF CheckAge, PCs
  <2>3. CASE SaveFails(t) \/ SaveClose(t)
    BY <2>1, <2>3 DEF SaveFails, SaveClose
  <2> QED
    BY <1>4, <2>2, <2>3
<1>5. ASSUME NEW t \in Threads, Alloc(t) \/ Fetch(t) PROVE Unmixed' /\ OneSave'
  <2>1. /\ UNCHANGED <<now, page, replaced, linked, blocks, mixed, full, kills>>
        /\ load[t].pc \in {"alloc", "fetch"}
    BY <1>5 DEF Alloc, Fetch, Goes
  <2>2. PICK from, to :
          /\ Goes(t, from, to)
          /\ \/ to = [Idle EXCEPT !.pc = "fetch", !.time = now]
             \/ \E links : to = [load[t] EXCEPT !.pc = "save", !.of = page,
                                                !.links = links]
    BY <1>5 DEF Alloc, Fetch
  <2>3. load[t].written = 0
    BY <2>1 DEF OneSave
  <2>4. to.pc # "write" /\ to.written = 0
    BY <1>a, <2>2, <2>3 DEF Loads, Idle
  <2>5. Of(to, t)
    BY <2>4 DEF Of
  <2> QED
    BY <1>d, <2>1, <2>2, <2>5
<1>6. CASE Tick \/ PageChanges \/ DiskFills \/ UNCHANGED vars
  <2>1. UNCHANGED <<load, blocks, mixed>> /\ full' \in {TRUE, full}
    BY <1>6 DEF Tick, PageChanges, DiskFills, vars
  <2>2. \A u \in Threads : Of(load[u], u)
    BY DEF OneSave, Of
  <2> QED
    BY <1>c, <2>1, <2>2
<1>7. CASE Kill
  <2>1. \A u \in Threads : load'[u] = Idle
    BY <1>7 DEF Kill
  <2>2. Idle.pc = "idle" /\ Idle.written = 0
    BY DEF Idle
  <2>3. UNCHANGED <<blocks, mixed>>
    BY <1>7 DEF Kill
  <2> QED
    BY <2>1, <2>2, <2>3 DEF Unmixed, WholeFile, OneSave
<1>8. ASSUME NEW t \in Threads, SaveOpen(t) PROVE Unmixed' /\ OneSave'
  <2> DEFINE inode == IF linked = None THEN Fresh ELSE linked
  <2>1. inode \in Inodes
    BY FreshIs DEF Ranges, TypeOK
  <2>2. /\ load[t].pc = "save" /\ blocks' = [blocks EXCEPT ![inode] = <<>>]
        /\ mixed' = IF Saving(inode) = {} THEN mixed \ {inode}
                    ELSE mixed \cup {inode}
        /\ UNCHANGED full
    BY <1>8 DEF SaveOpen
  <2>3. /\ load'[t].pc = "write" /\ load'[t].inode = inode
        /\ load'[t].written = load[t].written
    BY <1>8, <1>a DEF SaveOpen, Loads
  <2>4. \A u \in Threads : u # t =>
          /\ load'[u].pc = load[u].pc /\ load'[u].inode = load[u].inode
          /\ load'[u].written = load[u].written
          /\ load'[u].of = load[u].of /\ load'[u].time = load[u].time
    BY <1>8, <1>a DEF SaveOpen, Loads
  <2> HIDE DEF inode
  <2>5. \A i \in Inodes : blocks'[i] = IF i = inode THEN <<>> ELSE blocks[i]
    BY <1>a, <2>1, <2>2
  <2>6. \A i \in Inodes : i # inode /\ i \notin mixed' => i \notin mixed
    BY <2>2
  <2>7. Unmixed'
    BY <2>5, <2>6 DEF Unmixed, WholeFile
  <2>8. load'[t].written = 0
    BY <2>2, <2>3 DEF OneSave
  <2>9. inode \notin mixed' => Saving(inode) = {}
    BY <2>2
  <2> DEFINE SavingNext(i) == {v \in Threads : /\ load'[v].pc = "write"
                                              /\ load'[v].inode = i}
  <2>10. inode \notin mixed' => SavingNext(inode) = {t}
    <3>1. ASSUME Saving(inode) = {}, NEW v \in Threads
          PROVE  load'[v].pc = "write" /\ load'[v].inode = inode <=> v = t
      BY <2>3, <2>4, <3>1 DEF Saving
    <3> QED
      BY <2>9, <3>1
  <2>11. ASSUME NEW u \in Threads, u # t, load[u].pc = "write",
                load[u].inode \notin mixed'
         PROVE  /\ load[u].inode \in Inodes \ (mixed \cup {inode})
                /\ SavingNext(load[u].inode) = {u}
    <3>1. load[u].inode \in Inodes
      BY <1>b, <2>11
    <3>2. load[u].inode # inode
      BY <2>9, <2>11 DEF Saving
    <3>3. load[u].inode \notin mixed
      BY <2>6, <2>11, <3>1, <3>2
    <3>4. Saving(load[u].inode) = {u}
      BY <2>11, <3>3 DEF OneSave
    <3>5. \A v \in Threads :
            load'[v].pc = "write" /\ load'[v].inode = load[u].inode
              <=> load[v].pc = "write" /\ load[v].inode = load[u].inode
      BY <2>2, <2>3, <2>4, <3>2
    <3>6. SavingNext(load[u].inode) = {u}
      BY <3>4, <3>5 DEF Saving
    <3> QED
      BY <3>1, <3>2, <3>3, <3>6
  <2>12. \A u \in Threads : Saving(load[u].inode)' = SavingNext(load'[u].inode)
    BY DEF Saving
  <2>13. blocks'[inode] = <<>> /\ Len(<<>>) = 0
    BY <2>1, <2>5
  <2>14. ASSUME NEW u \in Threads
         PROVE  /\ load'[u].pc \notin {"write", "loaded"} => load'[u].written = 0
                /\ load'[u].pc = "write" /\ load'[u].inode \notin mixed' =>
                     LET file == blocks'[load'[u].inode]
                     IN  /\ Saving(load[u].inode)' = {u}
                         /\ Len(file) <= load'[u].written
                         /\ ~full' => Len(file) = load'[u].written
                         /\ file # <<>> => file[1] = Header(load'[u].of, load'[u].time)
    <3>1. CASE u = t
      BY <2>3, <2>8, <2>10, <2>12, <2>13, <3>1
    <3>2. CASE u # t
      <4>1. load'[u].pc \notin {"write", "loaded"} => load'[u].written = 0
        BY <2>4, <3>2 DEF OneSave
      <4>2. ASSUME load'[u].pc = "write", load'[u].inode \notin mixed'
            PROVE  LET file == blocks'[load'[u].inode]
                   IN  /\ Saving(load[u].inode)' = {u}
                       /\ Len(file) <= load'[u].written
                       /\ ~full' => Len(file) = load'[u].written
                       /\ file # <<>> => file[1] = Header(load'[u].of, load'[u].time)
        <5>1. load[u].pc = "write" /\ load[u].inode \notin mixed'
          BY <2>4, <3>2, <4>2
        <5>2. /\ load[u].inode \in Inodes \ (mixed \cup {inode})
              /\ SavingNext(load[u].inode) = {u}
          BY <2>11, <3>2, <5>1
        <5>3. blocks'[load[u].inode] = blocks[load[u].inode]
          BY <2>5, <5>2
        <5>4. Saving(load[u].inode)' = {u}
          BY <2>4, <2>12, <3>2, <5>2
        <5>5. LET file == blocks[load[u].inode]
              IN  /\ Len(file) <= load[u].written
                  /\ ~full => Len(file) = load[u].written
                  /\ file # <<>> => file[1] = Header(load[u].of, load[u].time)
          BY <5>1, <5>2 DEF OneSave
        <5> QED
          BY <2>2, <2>4, <3>2, <5>3, <5>4, <5>5
      <4> QED
        BY <4>1, <4>2
    <3> QED
      BY <3>1, <3>2
  <2>15. OneSave'
    BY <2>14 DEF OneSave
  <2> QED
    BY <2>7, <2>15
<1>9. ASSUME NEW t \in Threads, Flush(t) PROVE Unmixed' /\ OneSave'
  <2> DEFINE at == load[t].written + 1
             of == load[t].of
             time == load[t].time
             image == Image(of, time)
             inode == load[t].inode
             old == blocks[inode]
             block == image[at]
             file == Written(old, at, block)
  <2>1. /\ load[t].pc = "write" /\ load' = [load EXCEPT ![t].written = at]
        /\ at <= Len(image)
        /\ blocks' = IF full THEN blocks ELSE [blocks EXCEPT ![inode] = file]
        /\ UNCHANGED <<mixed, full>>
    BY <1>9 DEF Flush, Goes
  <2>2. \A u \in Threads :
          /\ load'[u].pc = load[u].pc /\ load'[u].inode = load[u].inode
          /\ load'[u].of = load[u].of /\ load'[u].time = load[u].time
          /\ load'[u].written = IF u = t THEN at ELSE load[u].written
    BY <1>a, <2>1 DEF Loads
  <2>3. \A u \in Threads : Saving(load[u].inode)' = Saving(load[u].inode)
    BY <2>2 DEF Saving
  <2>4. /\ of \in Versions /\ time \in 0..MaxTime /\ load[t].written \in Nat
        /\ inode \in Inodes /\ old \in Seq(Block) /\ Size[of] \in Nat
    BY <1>a, <2>1, OpenFiles, Sizes DEF Loads, OpenAt
  <2>5. /\ Len(image) = Size[of] + 1 /\ image[1] = Header(of, time)
        /\ \A k \in 2..Size[of] + 1 : image[k] = Entry(of, k - 1)
        /\ \A k \in 1..Size[of] + 1 : image[k] \in Block
    BY <2>4, ImageIs
  <2> HIDE DEF image
  <2>6. at \in 1..Size[of] + 1 /\ at \in Nat \ {0} /\ block \in Block
    BY <2>1, <2>4, <2>5
  <2>7. ASSUME NEW i \in Inodes, i # inode \/ full
        PROVE  blocks'[i] = blocks[i]
    BY <1>a, <2>1, <2>7
  <2>8. /\ Len(old) \in Nat
        /\ inode \notin mixed =>
             /\ Saving(inode) = {t} /\ Len(old) <= load[t].written
             /\ ~full => Len(old) = load[t].written
             /\ old # <<>> => old[1] = Header(of, time)
    <3>1. Len(old) \in Nat
      <4> HIDE DEF old
      <4> QED
        BY <2>4
    <3>2. inode \notin mixed =>
             /\ Saving(inode) = {t} /\ Len(old) <= load[t].written
             /\ ~full => Len(old) = load[t].written
             /\ old # <<>> => old[1] = Header(of, time)
      BY <2>1 DEF OneSave
    <3> QED
      BY <3>1, <3>2
  <2>9. ASSUME ~full, inode \notin mixed
        PROVE  /\ blocks'[inode] = file /\ Len(file) = at
               /\ file[1] = Header(of, time)
               /\ \A k \in 2..at : file[k] = Entry(of, k - 1)
    <3>1. blocks'[inode] = file
      BY <1>a, <2>1, <2>4, <2>9
    <3>2. Len(old) = at - 1
      BY <2>4, <2>8, <2>9
    <3>3. /\ Len(file) = IF at > Len(old) THEN at ELSE Len(old)
          /\ \A k \in 1..Len(file) :
               file[k] = IF k = at THEN block ELSE IF k <= Len(old) THEN old[k]
                                                                    ELSE Hole
      <4> HIDE DEF old, block, at
      <4> QED
        <5>1. IsWritten(file, old, at, block)
          BY <2>4, <2>6, WrittenIs
        <5> HIDE DEF file
        <5> QED
          BY <5>1 DEF IsWritten
    <3> HIDE DEF file
    <3>4. Len(file) = at
      BY <2>6, <3>2, <3>3
    <3>5. \A k \in 1..at : file[k] = IF k = at THEN block ELSE old[k]
      <4> HIDE DEF at, old, block
      <4> QED
        BY <2>6, <3>2, <3>3, <3>4
    <3>6. file[1] = Header(of, time)
      <4>1. CASE at = 1
        BY <2>5, <3>5, <4>1
      <4>2. CASE at # 1
        <5>1. old # <<>> /\ 1 \in 1..at
          BY <2>4, <2>6, <3>2, <4>2
        <5> QED
          BY <2>8, <2>9, <3>5, <4>2, <5>1
      <4> QED
        BY <4>1, <4>2
    <3>7. ASSUME NEW k \in 2..at PROVE file[k] = Entry(of, k - 1)
      <4>1. CASE k = at
        BY <2>5, <2>6, <3>5, <4>1
      <4>2. CASE k # at
        <5>1. old # <<>> /\ k \in 2..Len(old) /\ k \in 1..at
          BY <2>4, <2>6, <3>2, <4>2
        <5>2. old[k] = Entry(of, k - 1)
          BY <2>4, <2>8, <2>9, <5>1 DEF Unmixed, WholeFile, Header
        <5> QED
          BY <3>5, <4>2, <5>1, <5>2
      <4> QED
        BY <4>1, <4>2
    <3> QED
      BY <3>1, <3>4, <3>6, <3>7
  <2> HIDE DEF at, old, file, block
  <2>10. ASSUME NEW i \in Inodes \ mixed PROVE WholeFile(i)'
    <3>1. CASE i # inode \/ full
      BY <2>7, <3>1 DEF Unmixed, WholeFile
    <3>2. CASE i = inode /\ ~full
      <4>1. /\ blocks'[i] = file /\ Len(file) = at /\ file[1] = Header(of, time)
            /\ \A k \in 2..at : file[k] = Entry(of, k - 1)
        BY <2>9, <3>2
      <4>2. file[1] # Hole /\ file[1].of = of
        BY <4>1 DEF Header, Hole
      <4> QED
        BY <2>4, <2>6, <4>1, <4>2 DEF WholeFile
    <3> QED
      BY <3>1, <3>2
  <2>11. Unmixed'
    BY <2>1, <2>10 DEF Unmixed
  <2>12. ASSUME NEW u \in Threads, load[u].pc = "write", load[u].inode \notin mixed
         PROVE  /\ Saving(load[u].inode) = {u}
                /\ Len(blocks'[load[u].inode]) <= load'[u].written
                /\ ~full => Len(blocks'[load[u].inode]) = load'[u].written
                /\ blocks'[load[u].inode] # <<>> =>
                     blocks'[load[u].inode][1] = Header(load[u].of, load[u].time)
    <3>1. /\ Saving(load[u].inode) = {u} /\ load[u].inode \in Inodes
          /\ LET mine == blocks[load[u].inode]
             IN  /\ Len(mine) <= load[u].written
                 /\ ~full => Len(mine) = load[u].written
                 /\ mine # <<>> => mine[1] = Header(load[u].of, load[u].time)
      BY <1>b, <2>12 DEF OneSave
    <3>2. CASE u # t
      <4>1. load[u].inode # inode
        BY <2>1, <2>12, <3>1, <3>2 DEF Saving
      <4>2. blocks'[load[u].inode] = blocks[load[u].inode]
        BY <2>7, <3>1, <4>1
      <4> QED
        BY <2>2, <3>1, <3>2, <4>2
    <3>3. CASE u = t /\ full
      <4>1. blocks'[inode] = old /\ load'[t].written = at
        BY <2>2, <2>4, <2>7, <3>3 DEF old
      <4>2. Len(old) <= at
        BY <2>4, <2>8, <2>12, <3>3 DEF at
      <4> QED
        BY <2>8, <2>12, <3>1, <3>3, <4>1, <4>2
    <3>4. CASE u = t /\ ~full
      <4>1. Len(blocks'[inode]) = at /\ blocks'[inode][1] = Header(of, time)
        BY <2>9, <2>12, <3>4
      <4> QED
        BY <2>2, <2>6, <3>1, <3>4, <4>1
    <3> QED
      BY <3>2, <3>3, <3>4
  <2>13. \A u \in Threads : load'[u].pc \notin {"write", "loaded"}
                              => load'[u].written = 0
    BY <2>1, <2>2 DEF OneSave
  <2>14. OneSave'
    BY <2>1, <2>2, <2>3, <2>12, <2>13 DEF OneSave
  <2> QED
    BY <2>11, <2>14
<1> QED
  BY <1>1, <1>2, <1>3, <1>4, <1>5, <1>6, <1>7, <1>8, <1>9 DEF Next

-----------------------------------------------------------------------------
(* What is read. *)

\* A load reads the file whose header it has read, and its links in order,
\* while no two saves meet in that file and none cuts it.
LEMMA ReadsStep ==
  ASSUME Ranges, Unmixed, OneSave, Reads, [Next]_vars PROVE Reads'
<1> DEFINE Good(x) == ~x.sawMixed /\ ~x.cut
           Headed(x, files, bad) == /\ x.inode \notin bad /\ files[x.inode] # <<>>
                                    /\ files[x.inode][1] = Header(x.of, x.time)
           Placed(x) == \A k \in 1..Len(x.links) : InPlace(x.links[k], k)
           Own(x) == \A k \in 1..Len(x.links) : x.links[k] = Entry(x.of, k)
           Linked(x) == /\ Len(x.links) <= Size[x.of]
                        /\ x.pc # "entries" => Len(x.links) = Size[x.of]
                        /\ ~x.sawMixed => Placed(x)
                        /\ Good(x) => Own(x)
           Right(x, files, bad) ==
             /\ x.pc \in {"header", "inspect", "fetch", "save", "write"} => ~x.disk
             /\ x.pc \in {"header", "inspect"} => x.links = <<>>
             /\ x.pc \in {"inspect", "entries"} /\ Good(x)
                  => Headed(x, files, bad)
             /\ x.pc \in {"entries", "check", "loaded"} /\ x.disk => Linked(x)
<1>a. /\ load \in [Threads -> Loads] /\ blocks \in [Inodes -> Seq(Block)]
      /\ mixed \subseteq Inodes /\ full \in BOOLEAN /\ now \in 0..MaxTime
  BY DEF Ranges, TypeOK
<1>b. \A t \in Threads : Right(load[t], blocks, mixed)
  BY DEF Reads, Clean
<1>c. (\A t \in Threads : Right(load'[t], blocks', mixed')) => Reads'
  BY DEF Reads, Clean
<1>d. ASSUME NEW t \in Threads, NEW from, NEW to, Goes(t, from, to),
             Right(to, blocks, mixed), UNCHANGED <<now, blocks, mixed>>
      PROVE  Reads'
  <2>1. \A u \in Threads : load'[u] = IF u = t THEN to ELSE load[u]
    BY <1>a, <1>d, GoesTo
  <2> HIDE DEF Right
  <2>2. \A u \in Threads : Right(load'[u], blocks', mixed')
    BY <1>b, <1>d, <2>1
  <2> QED
    BY <1>c, <2>2
<1>e. ASSUME NEW x, NEW files, NEW bad, x.disk = FALSE,
             x.pc \notin {"header", "inspect", "entries"}
      PROVE  Right(x, files, bad)
  BY <1>e
<1>f. ASSUME NEW t \in Threads, NEW from,
             NEW label \in {"idle", "delete", "alloc"},
             \/ Goes(t, from, [Idle EXCEPT !.pc = label])
             \/ label = "idle" /\ Goes(t, from, Idle),
             UNCHANGED <<now, blocks, mixed>>
      PROVE  Reads'
  <2>1. PICK to : Goes(t, from, to) /\ Blank(to, label)
    <3>1. label \in PCs
      BY DEF PCs
    <3> QED
      BY <1>f, <3>1, IdleIs
  <2>2. Right(to, blocks, mixed)
    BY <1>e, <2>1 DEF Blank
  <2> QED
    BY <1>d, <1>f, <2>1, <2>2
<1>g. ASSUME NEW t \in Threads, load[t].pc \in {"fetch", "save", "write"}
      PROVE  load[t].disk = FALSE
  <2>1. load[t].disk \in BOOLEAN
    BY <1>a DEF Loads
  <2> QED
    BY <1>g, <2>1 DEF Reads
<1>1. ASSUME NEW t \in Threads, DiskOpen(t) PROVE Reads'
  <2>1. CASE linked = None
    BY <1>1, <1>f, <2>1 DEF DiskOpen
  <2>2. CASE linked # None
    <3> DEFINE to == [Idle EXCEPT !.pc = "header", !.inode = linked]
    <3>1. to.pc = "header" /\ to.links = <<>> /\ to.disk = FALSE
      BY DEF Idle
    <3>2. Goes(t, "idle", to)
      BY <1>1, <2>2 DEF DiskOpen
    <3> HIDE DEF to
    <3>3. Right(to, blocks, mixed)
      BY <3>1
    <3> QED
      BY <1>1, <1>d, <3>2, <3>3 DEF DiskOpen
  <2> QED
    BY <2>1, <2>2
<1>2. ASSUME NEW t \in Threads, ReadHeader(t) PROVE Reads'
  <2> DEFINE file == blocks[load[t].inode]
             to == [load[t] EXCEPT !.pc = "inspect", !.of = file[1].of,
                                   !.time = file[1].time, !.sawMixed = Saw(t)]
  <2>1. CASE file = <<>> \/ file[1] = Hole
    BY <1>2, <1>f, <2>1 DEF ReadHeader, NoGood
  <2>2. CASE ~(file = <<>> \/ file[1] = Hole)
    <3>1. Goes(t, "header", to) /\ UNCHANGED <<now, blocks, mixed>>
      BY <1>2, <2>2 DEF ReadHeader
    <3>2. load[t] \in Loads /\ load[t].pc = "header" /\ load[t].inode \in Inodes
      BY <1>a, <3>1, OpenFiles DEF Goes, OpenAt
    <3>3. file[1] \in Headers
      BY <2>2, <3>2 DEF Ranges
    <3>4. file[1] = Header(file[1].of, file[1].time)
      BY <3>3 DEF Headers, Header
    <3>5. ~load[t].disk /\ load[t].links = <<>>
      BY <3>2 DEF Reads
    <3>6. /\ to.pc = "inspect" /\ to.links = <<>> /\ ~to.disk
          /\ to.inode = load[t].inode /\ to.of = file[1].of
          /\ to.time = file[1].time /\ to.sawMixed = Saw(t)
      BY <3>2, <3>5 DEF Loads
    <3> HIDE DEF to
    <3>7. ~to.sawMixed => to.inode \notin mixed
      BY <3>6 DEF Saw
    <3>8. blocks[to.inode] # <<>> /\ blocks[to.inode][1] = Header(to.of, to.time)
      BY <2>2, <3>4, <3>6
    <3>9. Right(to, blocks, mixed)
      BY <3>6, <3>7, <3>8
    <3> QED
      BY <1>d, <3>1, <3>9
  <2> QED
    BY <2>1, <2>2
<1>3. ASSUME NEW t \in Threads, Inspect(t) PROVE Reads'
  <2> DEFINE to == [load[t] EXCEPT !.pc = "entries", !.disk = TRUE,
                                   !.sawMixed = Saw(t)]
  <2>1. /\ UNCHANGED <<now, blocks, mixed>> /\ load[t].pc = "inspect"
        /\ \/ Goes(t, "inspect", [Idle EXCEPT !.pc = "delete"])
           \/ Goes(t, "inspect", to)
    BY <1>3 DEF Inspect, NoGood, Goes
  <2>2. CASE Goes(t, "inspect", to)
    <3>1. /\ load[t] \in Loads /\ load[t].links = <<>> /\ Size[load[t].of] \in Nat
          /\ Right(load[t], blocks, mixed)
      BY <1>a, <1>b, <2>1, Sizes DEF Loads, Reads
    <3>2. /\ to.pc = "entries" /\ to.links = <<>> /\ to.inode = load[t].inode
          /\ to.of = load[t].of /\ to.time = load[t].time /\ to.sawMixed = Saw(t)
          /\ to.cut = load[t].cut
      BY <3>1 DEF Loads
    <3> HIDE DEF to
    <3>3. Good(to) => Headed(to, blocks, mixed)
      <4>1. Good(to) => Good(load[t])
        BY <2>1, <3>2 DEF Saw
      <4> QED
        BY <2>1, <3>1, <3>2, <4>1
    <3>4. Linked(to)
      BY <3>1, <3>2
    <3>5. Right(to, blocks, mixed)
      BY <3>2, <3>3, <3>4
    <3> QED
      BY <1>d, <2>1, <2>2, <3>5
  <2> QED
    BY <1>f, <2>1, <2>2
<1>4. ASSUME NEW t \in Threads, ReadEntry(t) PROVE Reads'
  <2> DEFINE inode == load[t].inode
             file == blocks[inode]
             of == load[t].of
             next == Len(load[t].links) + 2
             closed == [load[t] EXCEPT !.pc = "check", !.inode = None]
             to == [load[t] EXCEPT !.links = Append(@, file[next]), !.sawMixed = Saw(t)]
  <2>1. /\ UNCHANGED <<now, blocks, mixed>> /\ load[t].pc = "entries"
        /\ \/ Goes(t, "entries", [Idle EXCEPT !.pc = "delete"])
           \/ next > Size[of] + 1 /\ Goes(t, "entries", closed)
           \/ /\ next <= Len(file) /\ ~(next > Size[of] + 1)
              /\ Goes(t, "entries", to)
    <3>1. /\ UNCHANGED <<now, blocks, mixed>> /\ load[t].pc = "entries"
          /\ Goes(t, "entries", IF next > Size[of] + 1 THEN closed
                                ELSE IF next > Len(file) THEN NoGood(t) ELSE to)
      BY <1>4 DEF ReadEntry, Goes
    <3>2. inode \in Inodes /\ file \in Seq(Block)
      BY <3>1, OpenFiles DEF OpenAt
    <3>3. Len(file) \in Nat
      <4> HIDE DEF file, Block
      <4> QED
        BY <3>2
    <3>4. next \in Nat
      <4>1. load[t].links \in Seq(Block)
        BY <1>a DEF Loads
      <4> HIDE DEF Block
      <4> QED
        BY <4>1
    <3> HIDE DEF next, closed, to, file, of
    <3>5. CASE next > Size[of] + 1
      BY <3>1, <3>5
    <3>6. CASE ~(next > Size[of] + 1) /\ next > Len(file)
      BY <3>1, <3>6 DEF NoGood
    <3>7. CASE ~(next > Size[of] + 1) /\ ~(next > Len(file))
      BY <3>1, <3>3, <3>4, <3>7
    <3> QED
      BY <3>5, <3>6, <3>7
  <2>2. /\ load[t] \in Loads /\ inode \in Inodes /\ file \in Seq(Block)
        /\ of \in Versions /\ Size[of] \in Nat /\ load[t].links \in Seq(Block)
        /\ Right(load[t], blocks, mixed)
    BY <1>a, <1>b, <2>1, Sizes, OpenFiles DEF Loads, OpenAt
  <2>3. Len(load[t].links) \in Nat /\ next \in Nat /\ next >= 2
    <3> HIDE DEF Block
    <3> QED
      BY <2>2
  <2>4. CASE next > Size[of] + 1 /\ Goes(t, "entries", closed)
    <3>1. /\ closed.pc = "check" /\ closed.links = load[t].links
          /\ closed.of = of /\ closed.time = load[t].time
          /\ closed.sawMixed = load[t].sawMixed /\ closed.disk = load[t].disk
          /\ closed.cut = load[t].cut
      BY <2>2 DEF Loads
    <3> HIDE DEF closed
    <3>2. ASSUME closed.disk PROVE Linked(closed)
      <4>1. Linked(load[t])
        BY <2>1, <2>2, <3>1, <3>2
      <4>2. Len(load[t].links) = Size[of]
        BY <2>2, <2>3, <2>4, <4>1
      <4> QED
        BY <2>2, <3>1, <4>1, <4>2
    <3>3. Right(closed, blocks, mixed)
      BY <3>1, <3>2
    <3> QED
      BY <1>d, <2>1, <2>4, <3>3
  <2>5. CASE /\ next <= Len(file) /\ ~(next > Size[of] + 1)
             /\ Goes(t, "entries", to)
    <3>1. /\ to.pc = "entries" /\ to.links = Append(load[t].links, file[next])
          /\ to.of = of /\ to.time = load[t].time /\ to.inode = inode
          /\ to.sawMixed = Saw(t) /\ to.disk = load[t].disk /\ to.cut = load[t].cut
      BY <2>1, <2>2 DEF Loads
    <3> HIDE DEF to
    <3>2. /\ Len(to.links) = next - 1
          /\ \A k \in 1..next - 1 : to.links[k] = IF k = next - 1 THEN file[next]
                                                  ELSE load[t].links[k]
      <4>1. file[next] \in Block
        <5> HIDE DEF file, next, Block
        <5> QED
          BY <2>2, <2>3, <2>5
      <4> DEFINE b == file[next]
                 ls == load[t].links
      <4>2. ls \in Seq(Block) /\ b \in Block /\ to.links = Append(ls, b)
        BY <2>2, <3>1, <4>1
      <4> HIDE DEF b, ls, Block
      <4>3. /\ Len(to.links) = Len(ls) + 1
            /\ \A k \in 1..Len(ls) + 1 :
                 to.links[k] = IF k = Len(ls) + 1 THEN b ELSE ls[k]
        BY <4>2
      <4>4. next - 1 = Len(ls) + 1
        BY <2>3 DEF ls
      <4> QED
        BY <4>3, <4>4 DEF b, ls
    <3>3. next - 1 <= Size[of] /\ next \in 2..Len(file)
      <4>1. Len(file) \in Nat
        <5> HIDE DEF file, Block
        <5> QED
          BY <2>2
      <4> HIDE DEF next, file
      <4> QED
        BY <2>2, <2>3, <2>5, <4>1
    <3>4. ~to.sawMixed => inode \notin mixed /\ ~load[t].sawMixed
      BY <3>1 DEF Saw
    <3>5. ASSUME ~to.sawMixed
          PROVE  /\ file[1].of \in Versions /\ file # <<>>
                 /\ file[next] = Entry(file[1].of, next - 1)
      <4>1. WholeFile(inode) /\ file # <<>>
        <5>1. file # <<>>
          BY <2>3, <3>3
        <5> QED
          BY <2>2, <3>4, <3>5, <5>1 DEF Unmixed
      <4>2. file[1].of \in Versions
        BY <2>2, <4>1 DEF WholeFile, Ranges, Headers
      <4>3. \A k \in 2..Len(file) : file[k] = Entry(file[1].of, k - 1)
        BY <4>1 DEF WholeFile
      <4> HIDE DEF file, next
      <4> QED
        BY <3>3, <4>1, <4>2, <4>3
    <3>6. Good(to) => /\ Good(load[t]) /\ Headed(to, blocks, mixed)
                      /\ file[1].of = of
      <4> SUFFICES ASSUME Good(to)
                   PROVE  Good(load[t]) /\ Headed(to, blocks, mixed) /\ file[1].of = of
        OBVIOUS
      <4>1. Good(load[t]) /\ inode \notin mixed
        BY <3>1, <3>4
      <4>2. Headed(load[t], blocks, mixed)
        BY <2>1, <2>2, <4>1
      <4>3. Headed(to, blocks, mixed)
        BY <3>1, <4>2
      <4>4. file[1] = Header(of, load[t].time)
        BY <4>2
      <4> QED
        BY <4>1, <4>3, <4>4 DEF Header
    <3>7. ASSUME to.disk PROVE Linked(to)
      <4>1. Linked(load[t])
        BY <2>1, <2>2, <3>1, <3>7
      <4>2. Len(to.links) <= Size[to.of] /\ to.pc = "entries"
        BY <3>1, <3>2, <3>3
      <4>3. \A k \in 1..next - 1 : k = next - 1 \/ k \in 1..Len(load[t].links)
        BY <2>3
      <4>4. ASSUME ~to.sawMixed PROVE Placed(to)
        <5>1. Placed(load[t])
          BY <3>4, <4>1, <4>4
        <5>2. ASSUME NEW k \in 1..next - 1
              PROVE  InPlace(to.links[k], k)
          <6>1. CASE k = next - 1
            BY <3>2, <3>5, <4>4, <6>1 DEF InPlace
          <6>2. CASE k # next - 1
            BY <3>2, <4>3, <5>1, <6>2
          <6> QED
            BY <6>1, <6>2
        <5> QED
          BY <3>2, <5>2
      <4>5. ASSUME Good(to) PROVE Own(to)
        <5>1. Own(load[t]) /\ file[next] = Entry(of, next - 1)
          BY <3>5, <3>6, <4>1, <4>5
        <5>2. ASSUME NEW k \in 1..next - 1 PROVE to.links[k] = Entry(of, k)
          <6>1. CASE k = next - 1
            BY <3>2, <5>1, <6>1
          <6>2. CASE k # next - 1
            BY <3>2, <4>3, <5>1, <6>2
          <6> QED
            BY <6>1, <6>2
        <5> QED
          BY <3>1, <3>2, <5>2
      <4> HIDE DEF Placed, Own
      <4> QED
        BY <4>2, <4>4, <4>5
    <3>8. Right(to, blocks, mixed)
      BY <3>1, <3>6, <3>7
    <3> QED
      BY <1>d, <2>1, <2>5, <3>8
  <2>6. CASE Goes(t, "entries", [Idle EXCEPT !.pc = "delete"])
    BY <1>f, <2>1, <2>6
  <2> QED
    BY <2>1, <2>4, <2>5, <2>6
<1>5. ASSUME NEW t \in Threads, LinkTable_disk_delete(t) PROVE Reads'
  BY <1>5, <1>f DEF LinkTable_disk_delete
<1>6. ASSUME NEW t \in Threads, CheckAge(t) PROVE Reads'
  <2>1. CASE now - load[t].time > refresh_timeout
    BY <1>6, <1>f, <2>1 DEF CheckAge
  <2>2. CASE ~(now - load[t].time > refresh_timeout)
    <3> DEFINE to == [load[t] EXCEPT !.pc = "loaded"]
    <3>1. /\ Goes(t, "check", to) /\ UNCHANGED <<now, blocks, mixed>>
          /\ load[t].pc = "check"
      BY <1>6, <2>2 DEF CheckAge, Goes
    <3>2. load[t] \in Loads /\ Right(load[t], blocks, mixed)
      BY <1>a, <1>b
    <3>3. /\ to.pc = "loaded" /\ to.links = load[t].links /\ to.of = load[t].of
          /\ to.time = load[t].time /\ to.sawMixed = load[t].sawMixed
          /\ to.disk = load[t].disk /\ to.cut = load[t].cut
      BY <3>2 DEF Loads
    <3> HIDE DEF to
    <3>4. to.disk => Linked(to)
      BY <3>1, <3>2, <3>3
    <3>5. Right(to, blocks, mixed)
      BY <3>3, <3>4
    <3> QED
      BY <1>d, <3>1, <3>5
  <2> QED
    BY <2>1, <2>2
<1>7. ASSUME NEW t \in Threads, Alloc(t) PROVE Reads'
  <2> DEFINE to == [Idle EXCEPT !.pc = "fetch", !.time = now]
  <2>1. to.disk = FALSE /\ to.pc = "fetch"
    BY DEF Idle
  <2>2. Goes(t, "alloc", to) /\ UNCHANGED <<now, blocks, mixed>>
    BY <1>7 DEF Alloc
  <2> HIDE DEF to
  <2>3. Right(to, blocks, mixed)
    BY <1>e, <2>1
  <2> QED
    BY <1>d, <2>2, <2>3
<1>8. ASSUME NEW t \in Threads, Fetch(t) PROVE Reads'
  <2> DEFINE to == [load[t] EXCEPT !.pc = "save", !.of = page,
                              !.links = [i \in 1..Size[page] |-> Entry(page, i)]]
  <2>1. load[t].pc = "fetch" /\ load[t] \in Loads
    BY <1>a, <1>8 DEF Fetch, Goes
  <2>2. to.disk = FALSE /\ to.pc = "save"
    BY <1>g, <2>1 DEF Loads
  <2>3. Goes(t, "fetch", to) /\ UNCHANGED <<now, blocks, mixed>>
    BY <1>8 DEF Fetch
  <2> HIDE DEF to
  <2>4. Right(to, blocks, mixed)
    BY <1>e, <2>2
  <2> QED
    BY <1>d, <2>3, <2>4
<1>9. ASSUME NEW t \in Threads, FetchFails(t) PROVE Reads'
  BY <1>9, <1>f DEF FetchFails
<1>10. ASSUME NEW t \in Threads, Forget(t) PROVE Reads'
  BY <1>10, <1>f DEF Forget
<1>11. ASSUME NEW t \in Threads, SaveOpen(t) PROVE Reads'
  <2> DEFINE inode == IF linked = None THEN Fresh ELSE linked
  <2>1. /\ load[t].pc = "save" /\ now' = now
        /\ \A i \in Inodes \ {inode} : /\ blocks'[i] = blocks[i]
                                       /\ i \in mixed' <=> i \in mixed
        /\ load'[t] = [load[t] EXCEPT !.pc = "write", !.inode = inode]
        /\ \A u \in Threads \ {t} :
             load'[u] = [load[u] EXCEPT !.cut = @ \/ u \in Reading(inode)]
    BY <1>11, <1>a DEF SaveOpen
  <2> HIDE DEF inode
  <2>2. Right(load'[t], blocks', mixed')
    <3>1. load'[t].pc = "write" /\ load'[t].disk = load[t].disk
      <4>1. load[t] \in Loads
        BY <1>a
      <4> QED
        BY <2>1, <4>1 DEF Loads
    <3>2. load'[t].disk = FALSE
      BY <1>g, <2>1, <3>1
    <3> QED
      BY <1>e, <3>1, <3>2
  <2>3. ASSUME NEW u \in Threads \ {t} PROVE Right(load'[u], blocks', mixed')
    <3>1. load[u] \in Loads /\ Right(load[u], blocks, mixed)
      BY <1>a, <1>b
    <3> DEFINE x == load'[u]
    <3>2. /\ x.pc = load[u].pc /\ x.inode = load[u].inode /\ x.time = load[u].time
          /\ x.of = load[u].of /\ x.links = load[u].links /\ x.disk = load[u].disk
          /\ x.sawMixed = load[u].sawMixed
          /\ x.cut = (load[u].cut \/ u \in Reading(inode))
      <4>1. x = [load[u] EXCEPT !.cut = load[u].cut \/ u \in Reading(inode)]
        BY <2>1
      <4> HIDE DEF x
      <4> QED
        BY <3>1, <4>1 DEF Loads
    <3> HIDE DEF x
    <3>3. Good(x) => Good(load[u])
      BY <2>1, <3>2
    <3>4. ASSUME x.pc \in {"inspect", "entries"}, Good(x)
          PROVE  Headed(x, blocks', mixed')
      <4>1. Headed(load[u], blocks, mixed)
        BY <3>1, <3>2, <3>3, <3>4
      <4>2. load[u].inode \in Inodes
        BY <3>2, <3>4, OpenFiles DEF OpenAt
      <4>3. load[u].inode # inode
        BY <2>1, <3>2, <3>4 DEF Reading
      <4> QED
        BY <2>1, <3>2, <4>1, <4>2, <4>3
    <3>5. x.disk /\ x.pc \in {"entries", "check", "loaded"} => Linked(x)
      BY <3>1, <3>2, <3>3
    <3>6. Right(x, blocks', mixed')
      BY <3>1, <3>2, <3>4, <3>5
    <3> QED
      BY <3>6 DEF x
  <2> HIDE DEF Right
  <2> QED
    BY <1>c, <2>2, <2>3
<1>12. ASSUME NEW t \in Threads, SaveFails(t) PROVE Reads'
  <2> DEFINE to == [load[t] EXCEPT !.pc = "loaded"]
  <2>1. /\ Goes(t, "save", to) /\ UNCHANGED <<now, blocks, mixed>>
        /\ load[t].pc = "save" /\ load[t] \in Loads
    BY <1>a, <1>12 DEF SaveFails, Goes
  <2>2. to.disk = FALSE /\ to.pc = "loaded"
    BY <1>g, <2>1 DEF Loads
  <2> HIDE DEF to
  <2>3. Right(to, blocks, mixed)
    BY <1>e, <2>2
  <2> QED
    BY <1>d, <2>1, <2>3
<1>13. ASSUME NEW t \in Threads, SaveClose(t) PROVE Reads'
  <2> DEFINE to == [load[t] EXCEPT !.pc = "loaded", !.inode = None]
  <2>1. /\ Goes(t, "write", to) /\ UNCHANGED <<now, blocks, mixed>>
        /\ load[t].pc = "write" /\ load[t] \in Loads
    BY <1>a, <1>13 DEF SaveClose, Goes
  <2>2. to.disk = FALSE /\ to.pc = "loaded"
    BY <1>g, <2>1 DEF Loads
  <2> HIDE DEF to
  <2>3. Right(to, blocks, mixed)
    BY <1>e, <2>2
  <2> QED
    BY <1>d, <2>1, <2>3
<1>14. ASSUME NEW t \in Threads, Flush(t) PROVE Reads'
  <2> DEFINE inode == load[t].inode
             at == load[t].written + 1
             image == Image(load[t].of, load[t].time)
             old == blocks[inode]
             block == image[at]
             to == [load[t] EXCEPT !.written = at]
  <2>1. /\ load[t].pc = "write" /\ Goes(t, "write", to) /\ at <= Len(image)
        /\ now' = now /\ mixed' = mixed
        /\ blocks' = IF full THEN blocks
                     ELSE [blocks EXCEPT ![inode] = Written(old, at, block)]
    BY <1>14 DEF Flush, Goes
  <2>2. /\ load[t] \in Loads /\ load[t].written \in Nat /\ inode \in Inodes
        /\ old \in Seq(Block) /\ load[t].of \in Versions /\ load[t].time \in 0..MaxTime
        /\ Size[load[t].of] \in Nat
    BY <1>a, <2>1, OpenFiles, Sizes DEF Loads, OpenAt
  <2>3. \A u \in Threads : load'[u] = IF u = t THEN to ELSE load[u]
    BY <1>a, <2>1, GoesTo
  <2>4. to.disk = FALSE /\ to.pc = "write"
    BY <1>g, <2>1, <2>2 DEF Loads
  <2> HIDE DEF to
  <2>5. block \in Block /\ at \in Nat \ {0}
    <3>1. /\ Len(image) = Size[load[t].of] + 1
          /\ \A k \in 1..Size[load[t].of] + 1 : image[k] \in Block
      BY <2>2, ImageIs
    <3> HIDE DEF image
    <3> QED
      BY <2>1, <2>2, <3>1
  <2>6. ASSUME NEW u \in Threads \ {t}, load[u].pc \in {"inspect", "entries"},
               Good(load[u])
        PROVE  Headed(load[u], blocks', mixed)
    <3> DEFINE i == load[u].inode
    <3>1. /\ i \in Inodes /\ i \notin mixed /\ blocks[i] # <<>>
          /\ blocks[i][1] = Header(load[u].of, load[u].time)
      BY <1>b, <2>6, OpenFiles DEF OpenAt
    <3>2. CASE i # inode \/ full
      <4>1. blocks'[i] = blocks[i]
        BY <1>a, <2>1, <3>1, <3>2
      <4> QED
        BY <3>1, <4>1
    <3>3. CASE i = inode /\ ~full
      <4>1. old # <<>> /\ Len(old) = load[t].written
        BY <2>1, <3>1, <3>3 DEF OneSave
      <4> DEFINE file == Written(old, at, block)
      <4>2. blocks'[inode] = file
        BY <1>a, <2>1, <2>2, <3>3
      <4> HIDE DEF block
      <4>3. file # <<>> /\ file[1] = old[1]
        <5> HIDE DEF old
        <5>1. Len(old) \in Nat \ {0}
          BY <2>2, <4>1
        <5>2. /\ at # 1 /\ 1 \in 1..at /\ 1 <= Len(old) /\ at > Len(old)
          BY <2>2, <4>1, <5>1
        <5> HIDE DEF at
        <5>3. /\ Len(file) = IF at > Len(old) THEN at ELSE Len(old)
              /\ file # <<>>
              /\ \A k \in 1..Len(file) :
                   file[k] = IF k = at THEN block ELSE IF k <= Len(old) THEN old[k]
                                                                        ELSE Hole
          <6>1. IsWritten(file, old, at, block)
            BY <2>2, <2>5, WrittenIs
          <6> HIDE DEF file
          <6> QED
            BY <6>1 DEF IsWritten
        <5> HIDE DEF file
        <5> QED
          BY <5>2, <5>3
      <4> HIDE DEF file
      <4> QED
        BY <3>1, <3>3, <4>2, <4>3
    <3> QED
      BY <3>2, <3>3
  <2>7. Right(load'[t], blocks', mixed')
    BY <1>e, <2>3, <2>4
  <2>8. ASSUME NEW u \in Threads \ {t} PROVE Right(load'[u], blocks', mixed')
    BY <1>b, <2>1, <2>3, <2>6
  <2> HIDE DEF Right
  <2> QED
    BY <1>c, <2>7, <2>8
<1>15. CASE Tick \/ PageChanges \/ DiskFills \/ UNCHANGED vars
  <2>1. UNCHANGED <<load, blocks, mixed>>
    BY <1>15 DEF Tick, PageChanges, DiskFills, vars
  <2> HIDE DEF Right
  <2> QED
    BY <1>b, <1>c, <2>1
<1>16. CASE Kill
  <2>1. \A t \in Threads : load'[t] = Idle
    BY <1>16 DEF Kill
  <2>2. Right(Idle, blocks', mixed')
    BY <1>e, IdleIs DEF Blank
  <2> HIDE DEF Right
  <2> QED
    BY <1>c, <2>1, <2>2
<1>17. ASSUME NEW t \in Threads, ReadBuffered(t) PROVE Reads'
  <2> DEFINE ls == load[t].links
             at == Len(ls) + 1
  <2>1. PICK link \in {Entry(load[t].of, at), Blend(at)} :
          Goes(t, "entries", [load[t] EXCEPT !.links = Append(@, link),
                                             !.sawMixed = Saw(t)])
    BY <1>17 DEF ReadBuffered
  <2> DEFINE to == [load[t] EXCEPT !.links = Append(@, link), !.sawMixed = Saw(t)]
  <2>2. /\ UNCHANGED <<now, blocks, mixed>> /\ load[t].pc = "entries"
        /\ load[t].cut /\ at <= Size[load[t].of]
    BY <1>17 DEF ReadBuffered, Goes
  <2>3. /\ load[t] \in Loads /\ ls \in Seq(Block) /\ load[t].of \in Versions
        /\ Right(load[t], blocks, mixed)
    BY <1>a, <1>b DEF Loads
  <2>4. /\ to.pc = "entries" /\ to.links = Append(ls, link) /\ to.of = load[t].of
        /\ to.sawMixed = Saw(t) /\ to.disk = load[t].disk /\ to.cut
    BY <2>2, <2>3 DEF Loads
  <2>5. InPlace(link, at)
    <3> HIDE DEF at
    <3> QED
      BY <2>1, <2>3 DEF InPlace
  <2> HIDE DEF to
  <2>6. /\ Len(to.links) = at /\ Len(ls) \in Nat
        /\ \A k \in 1..at : to.links[k] = IF k = at THEN link ELSE ls[k]
    <3> HIDE DEF Block, ls
    <3> QED
      BY <2>3, <2>4
  <2>7. ~Good(to)
    BY <2>4
  <2>8. ASSUME to.disk PROVE Linked(to)
    <3>1. ASSUME ~to.sawMixed PROVE Placed(to)
      <4>1. Placed(load[t])
        BY <2>2, <2>3, <2>4, <2>8, <3>1 DEF Saw
      <4>2. ASSUME NEW k \in 1..at, k # at PROVE k \in 1..Len(ls)
        <5> HIDE DEF ls
        <5> QED
          BY <2>6, <4>2
      <4> QED
        BY <2>5, <2>6, <4>1, <4>2
    <3> HIDE DEF Placed, Own
    <3> QED
      BY <2>2, <2>4, <2>6, <2>7, <3>1
  <2>9. Right(to, blocks, mixed)
    BY <2>4, <2>7, <2>8
  <2> HIDE DEF Right
  <2> QED
    BY <1>d, <2>1, <2>2, <2>9 DEF to
<1> QED
  BY <1>1, <1>2, <1>3, <1>4, <1>5, <1>6, <1>7, <1>8, <1>9, <1>10, <1>11, <1>12,
     <1>13, <1>14, <1>15, <1>16, <1>17
  DEF Next

-----------------------------------------------------------------------------
(* The theorems. *)

\* With nothing on the disk and every thread idle, all of it holds.
LEMMA ListingInit == Init => ListingInv
<1> SUFFICES ASSUME Init PROVE ListingInv
  OBVIOUS
<1>1. /\ now = 0 /\ kills = 0 /\ full = FALSE /\ page = 1 /\ linked = None
      /\ replaced = [v \in Versions |-> Never] /\ mixed = {}
      /\ \A i \in Inodes : blocks[i] = <<>>
      /\ \A t \in Threads : load[t] = Idle
  BY DEF Init
<1>2. Blank(Idle, "idle") /\ Idle \in Loads
  BY IdleIs DEF Blank
<1>3. Ranges
  <2>1. load \in [Threads -> Loads] /\ blocks \in [Inodes -> Seq(Block)]
    <3>1. <<>> \in Seq(Block)
      OBVIOUS
    <3> HIDE DEF Block
    <3> QED
      BY <1>2, <3>1 DEF Init
  <2>2. /\ now \in 0..MaxTime /\ kills \in 0..MaxKills /\ page \in Versions
        /\ replaced \in [Versions -> 0..Never]
    BY <1>1, Sizes DEF Never
  <2>3. ASSUME NEW t \in Threads
        PROVE  /\ load[t].pc = "idle" /\ load[t].pc \in PCs
               /\ load[t].inode = None /\ load[t].time = 0 /\ load[t].of = 1
               /\ load[t].links = <<>> /\ load[t].written = 0
    BY <1>1, <1>2 DEF Blank, PCs
  <2>4. /\ 0 \in 0..MaxTime /\ 0 \in 0 .. Size[1] + 1 /\ 1 \in Versions
        /\ <<>> \in Seq(Block)
    BY Sizes
  <2>5. TypeOK
    BY <1>1, <2>1, <2>2, <2>3, <2>4 DEF TypeOK
  <2> QED
    BY <1>1, <2>1, <2>5 DEF Ranges
<1>4. Dated
  <2>1. Never \in Nat /\ 0 <= Never
    BY Sizes DEF Never
  <2> QED
    BY <1>1, <1>2, <2>1, Sizes DEF Dated, Blank
<1>5. Unmixed
  BY <1>1 DEF Unmixed, WholeFile
<1>6. OneSave
  BY <1>1, <1>2 DEF OneSave, Blank
<1>7. Reads
  BY <1>1, <1>2 DEF Reads, Blank
<1> QED
  BY <1>3, <1>4, <1>5, <1>6, <1>7 DEF ListingInv

(* What the saved listing of a directory always is: dated before the page it  *)
(* came from was replaced, whole where one save at a time was at the file,    *)
(* and what a load has read of it in order.                                   *)
THEOREM ListingInvariant == Spec => []ListingInv
<1>1. ListingInv /\ [Next]_vars => ListingInv'
  BY RangesStep, DatedStep, FilesStep, ReadsStep DEF ListingInv
<1> QED
  BY <1>1, ListingInit, PTL DEF Spec

(* Every load, inode and block is of its kind, whatever the threads do. *)
THEOREM ListingTypes == Spec => []TypeOK
<1>1. ListingInv => TypeOK
  BY DEF ListingInv, Ranges
<1> QED
  BY <1>1, ListingInvariant, PTL

(* A listing that comes from the disk is one version of the page, all of it,  *)
(* or, when its file was cut while it was read, as many links as its header   *)
(* said, each in its place; for any threads and kills and sizes of the page.  *)
THEOREM ServedWhole == Spec => []ServedIsWhole
<1>1. ListingInv => ServedIsWhole
  <2> SUFFICES ASSUME ListingInv, NEW t \in Threads, ServesSaved(t)
               PROVE  LinksInPlace(t) /\ (load[t].cut \/ OneVersion(t))
    BY DEF ServedIsWhole
  <2> DEFINE of == load[t].of
             links == load[t].links
  <2>1. of \in Versions /\ links \in Seq(Block) /\ Size[of] \in Nat
    BY Sizes DEF ListingInv, Ranges, TypeOK
  <2>2. /\ Len(links) = Size[of]
        /\ \A k \in 1..Len(links) : InPlace(links[k], k)
        /\ ~load[t].cut => \A k \in 1..Len(links) : links[k] = Entry(of, k)
    BY DEF ListingInv, Reads, Clean, ServesSaved
  <2>3. DOMAIN links = 1..Len(links)
    <3> HIDE DEF links, Block
    <3> QED
      BY <2>1
  <2>4. LinksInPlace(t)
    BY <2>2, <2>3 DEF LinksInPlace
  <2>5. ASSUME ~load[t].cut PROVE OneVersion(t)
    <3>1. links = [i \in 1..Size[of] |-> Entry(of, i)]
      <4>1. \A k \in 1..Len(links) : links[k] = Entry(of, k)
        BY <2>2, <2>5
      <4> HIDE DEF links, of, Block
      <4> QED
        BY <2>1, <2>2, <4>1
    <3> QED
      BY <2>1, <3>1 DEF OneVersion
  <2> QED
    BY <2>4, <2>5
<1> QED
  BY <1>1, ListingInvariant, PTL

(* When the age check takes a listing from the disk, its version of the page  *)
(* was the server's no longer ago than --refresh-timeout.                     *)
THEOREM ServedFresh == Spec => ServedIsFresh
<1> DEFINE Took == \A t \in Threads :
             (load[t].pc = "check" /\ ServesSaved(t)') =>
               replaced[load[t].of] >= now - refresh_timeout
<1>1. ListingInv /\ [Next]_vars => [Took]_vars
  <2> SUFFICES ASSUME ListingInv, Next, NEW t \in Threads,
                      load[t].pc = "check", ServesSaved(t)'
               PROVE  replaced[load[t].of] >= now - refresh_timeout
    OBVIOUS
  <2>1. load \in [Threads -> Loads]
    BY DEF ListingInv, Ranges
  <2>2. load'[t].pc = "loaded"
    BY DEF ServesSaved
  <2>3. \E u \in Threads :
          \/ CheckAge(u)
          \/ load[u].pc # "check" /\ (u # t => load'[t].pc = load[t].pc)
    <3>1. ASSUME NEW u \in Threads, NEW from, NEW to, Goes(u, from, to), from # "check"
          PROVE  load[u].pc # "check" /\ (u # t => load'[t].pc = load[t].pc)
      BY <2>1, <3>1, GoesTo
    <3>2. ASSUME NEW u \in Threads, SaveOpen(u)
          PROVE  load[u].pc # "check" /\ (u # t => load'[t].pc = load[t].pc)
      <4>1. load[t] \in Loads
        BY <2>1
      <4>2. u # t => \E saw : load'[t] = [load[t] EXCEPT !.cut = saw]
        BY <3>2 DEF SaveOpen
      <4> QED
        BY <3>2, <4>1, <4>2 DEF SaveOpen, Loads
    <3>3. ~(Tick \/ PageChanges \/ DiskFills \/ Kill)
      BY <2>2, IdleIs DEF Tick, PageChanges, DiskFills, Kill, Blank
    <3>4. PICK u \in Threads :
            \/ CheckAge(u) \/ SaveOpen(u)
            \/ DiskOpen(u) \/ ReadHeader(u) \/ Inspect(u) \/ ReadEntry(u)
            \/ ReadBuffered(u)
            \/ LinkTable_disk_delete(u) \/ Alloc(u) \/ Fetch(u) \/ FetchFails(u)
            \/ Forget(u) \/ SaveFails(u) \/ Flush(u) \/ SaveClose(u)
      BY <3>3 DEF Next
    <3>5. CASE DiskOpen(u) \/ ReadHeader(u) \/ Inspect(u) \/ ReadEntry(u)
      BY <3>1, <3>5 DEF DiskOpen, ReadHeader, Inspect, ReadEntry
    <3>8. CASE ReadBuffered(u)
      BY <3>1, <3>8 DEF ReadBuffered
    <3>6. CASE LinkTable_disk_delete(u) \/ Alloc(u) \/ Fetch(u) \/ FetchFails(u)
      BY <3>1, <3>6 DEF LinkTable_disk_delete, Alloc, Fetch, FetchFails
    <3>7. CASE Forget(u) \/ SaveFails(u) \/ Flush(u) \/ SaveClose(u)
      BY <3>1, <3>7 DEF Forget, SaveFails, Flush, SaveClose
    <3> QED
      BY <3>2, <3>4, <3>5, <3>6, <3>7, <3>8
  <2>4. CheckAge(t)
    <3>1. PICK u \in Threads :
            \/ CheckAge(u)
            \/ load[u].pc # "check" /\ (u # t => load'[t].pc = load[t].pc)
      BY <2>3
    <3>2. CheckAge(u) /\ u # t => load'[t] = load[t]
      BY <2>1, GoesTo DEF CheckAge
    <3> QED
      BY <2>2, <3>1, <3>2
  <2>5. ~(now - load[t].time > refresh_timeout)
    BY <2>1, <2>2, <2>4, IdleIs DEF CheckAge, Goes, Blank, PCs
  <2>6. load[t].time <= replaced[load[t].of]
    BY DEF ListingInv, Dated
  <2>7. /\ load[t].time \in Nat /\ now \in Nat /\ refresh_timeout \in Nat
        /\ replaced[load[t].of] \in Nat
    BY Sizes DEF ListingInv, Ranges, TypeOK, Never
  <2> QED
    BY <2>5, <2>6, <2>7
<1> QED
  BY <1>1, ListingInvariant, PTL DEF Spec, ServedIsFresh
===============================================================================
