------------------------------ MODULE ListingDisk -----------------------------
(***************************************************************************)
(* The saved listing of one directory, META_DIR/.../.LinkTable (link.c):   *)
(* threads run LinkTable_new for the directory, which opens the saved      *)
(* listing, and downloads and saves a new one when there is none, when it  *)
(* is no good or when it is too old.  Nothing keeps two of them apart.     *)
(*                                                                         *)
(* The file is a sequence of blocks, the header and then one per link;     *)
(* stdio hands them to the kernel in order, and what it still holds is     *)
(* lost when the process is killed.  A block that has reached the kernel   *)
(* in part is not there yet: file_size is divided by the size of an entry. *)
(* A thread that has a file open keeps its inode, unlinked or not.         *)
(***************************************************************************)
EXTENDS Integers, Sequences, FiniteSets

CONSTANTS Threads,
          Size,             \* Size[v]: how many links the page's version v gives
          refresh_timeout,  \* CONFIG.refresh_timeout
          MaxTime,          \* bound on the clock
          MaxKills          \* bound on kills

ASSUME ListingAssumption ==
  /\ IsFiniteSet(Threads)
  /\ Size \in Seq(Nat \ {0}) /\ Size # <<>>
  /\ refresh_timeout \in Nat /\ MaxTime \in Nat /\ MaxKills \in Nat

VARIABLES now,       \* time()
          page,      \* the version the server has
          replaced,  \* when it got the next one; history
          linked,    \* the inode .LinkTable is, or None
          blocks,    \* what each inode holds
          mixed,     \* inodes two saves were at together; history
          load,      \* what each thread is doing
          full,      \* the disk takes nothing more
          kills

vars == <<now, page, replaced, linked, blocks, mixed, load, full, kills>>

Versions == DOMAIN Size
None == 0
Inodes == 1 .. Cardinality(Threads) + 1
Never == MaxTime + 1

\* A block that was skipped reads as zeroes.
Hole == [kind |-> "hole"]
Header(v, time) == [kind |-> "header", of |-> v, time |-> time]
Entry(v, i) == [kind |-> "entry", of |-> v, at |-> i]
Image(v, time) == <<Header(v, time)>> \o [i \in 1..Size[v] |-> Entry(v, i)]

\* A link read in two parts, of which a save rewrote the second.
Blend(i) == [kind |-> "blend", at |-> i]

Entries == UNION {{Entry(v, i) : i \in 1..Size[v]} : v \in Versions}

Block == {Hole} \cup [kind : {"header"}, of : Versions, time : 0..MaxTime]
           \cup Entries \cup [kind : {"blend"}, at : Nat]

\* A thread between two loads.
\*   inode       the file it has open     time   index_time
\*   of          the version of its links, or of the header it read
\*   links       the links it has         disk   they come from the disk
\*   written     how many blocks have left its buffer
\*   sawMixed    two saves met in the file it read; history
\*   cut         a save cut the file after it read the header
Idle == [pc |-> "idle", inode |-> None, time |-> 0, of |-> 1, links |-> <<>>,
         disk |-> FALSE, written |-> 0, sawMixed |-> FALSE, cut |-> FALSE]

PCs == {"idle", "header", "inspect", "entries", "delete", "check", "alloc", "fetch",
        "save", "write", "loaded"}

TypeOK ==
  /\ now \in 0..MaxTime /\ kills \in 0..MaxKills /\ full \in BOOLEAN
  /\ page \in Versions /\ replaced \in [Versions -> 0..Never]
  /\ linked \in {None} \cup Inodes
  /\ blocks \in [Inodes -> Seq(Block)]
  /\ mixed \subseteq Inodes
  /\ \A t \in Threads :
       /\ load[t].pc \in PCs
       /\ load[t].inode \in {None} \cup Inodes
       /\ load[t].pc \in {"header", "inspect", "entries", "write"} <=> load[t].inode # None
       /\ load[t].time \in 0..MaxTime /\ load[t].of \in Versions
       /\ load[t].links \in Seq(Block)
       /\ load[t].written \in 0 .. Size[load[t].of] + 1

Init ==
  /\ now = 0 /\ kills = 0 /\ full = FALSE
  /\ page = 1 /\ replaced = [v \in Versions |-> Never]
  /\ linked = None /\ blocks = [i \in Inodes |-> <<>>] /\ mixed = {}
  /\ load = [t \in Threads |-> Idle]

-----------------------------------------------------------------------------
(* LinkTable_disk_open. *)

Goes(t, from, to) == load[t].pc = from /\ load' = [load EXCEPT ![t] = to]

\* Mutant: an error return that leaves the file open.
NoGood_leaky(t) == [Idle EXCEPT !.pc = "delete", !.inode = load[t].inode]

\* What t has read so far is given up: the file is closed, and then deleted.
NoGood(t) == [Idle EXCEPT !.pc = "delete"]

Saw(t) == load[t].sawMixed \/ load[t].inode \in mixed

\* fopen(path, "r"): with no file, LinkTable_new goes on to download.
DiskOpen(t) ==
  /\ Goes(t, "idle", IF linked = None THEN [Idle EXCEPT !.pc = "alloc"]
                     ELSE [Idle EXCEPT !.pc = "header", !.inode = linked])
  /\ UNCHANGED <<now, page, replaced, linked, blocks, mixed, full, kills>>

\* A file without its header, or with a size of zero, is no good.
ReadHeader(t) ==
  LET file == blocks[load[t].inode]
  IN  /\ Goes(t, "header",
              IF file = <<>> THEN NoGood(t)
              ELSE IF file[1] = Hole THEN NoGood(t)
              ELSE [load[t] EXCEPT !.pc = "inspect", !.of = file[1].of,
                                   !.time = file[1].time, !.sawMixed = Saw(t)])
      /\ UNCHANGED <<now, page, replaced, linked, blocks, mixed, full, kills>>

\* The size in the header is checked against that of the file.
Inspect(t) ==
  /\ Goes(t, "inspect",
          IF Len(blocks[load[t].inode]) - 1 < Size[load[t].of] THEN NoGood(t)
          ELSE [load[t] EXCEPT !.pc = "entries", !.disk = TRUE, !.sawMixed = Saw(t)])
  /\ UNCHANGED <<now, page, replaced, linked, blocks, mixed, full, kills>>

\* Mutant: an end that comes too soon is taken for the end.
ReadEntry_short(t) ==
  LET file == blocks[load[t].inode]
      next == Len(load[t].links) + 2
  IN  /\ Goes(t, "entries",
              IF next > Size[load[t].of] + 1 \/ next > Len(file)
              THEN [load[t] EXCEPT !.pc = "check", !.inode = None]
              ELSE [load[t] EXCEPT !.links = Append(@, file[next]), !.sawMixed = Saw(t)])
      /\ UNCHANGED <<now, page, replaced, linked, blocks, mixed, full, kills>>

\* One link is read, or, after the last, the file closed.
ReadEntry(t) ==
  LET file == blocks[load[t].inode]
      next == Len(load[t].links) + 2
  IN  /\ Goes(t, "entries",
              IF next > Size[load[t].of] + 1
              THEN [load[t] EXCEPT !.pc = "check", !.inode = None]
              ELSE IF next > Len(file) THEN NoGood(t)
              ELSE [load[t] EXCEPT !.links = Append(@, file[next]), !.sawMixed = Saw(t)])
      /\ UNCHANGED <<now, page, replaced, linked, blocks, mixed, full, kills>>

\* The file was cut, but stdio still holds the next link as it was, or the first
\* part of it, and the rest is read from where the new one now is.
ReadBuffered(t) ==
  LET at == Len(load[t].links) + 1
  IN  /\ load[t].cut /\ at <= Size[load[t].of]
      /\ \E link \in {Entry(load[t].of, at), Blend(at)} :
           Goes(t, "entries", [load[t] EXCEPT !.links = Append(@, link),
                                              !.sawMixed = Saw(t)])
      /\ UNCHANGED <<now, page, replaced, linked, blocks, mixed, full, kills>>

\* unlink() takes the path, whatever file it is now.
LinkTable_disk_delete(t) ==
  /\ Goes(t, "delete", [Idle EXCEPT !.pc = "alloc"])
  /\ linked' = None
  /\ UNCHANGED <<now, page, replaced, blocks, mixed, full, kills>>

-----------------------------------------------------------------------------
(* LinkTable_new. *)

\* A saved listing that is not too old is the directory's.
CheckAge(t) ==
  /\ Goes(t, "check", IF now - load[t].time > refresh_timeout
                      THEN [Idle EXCEPT !.pc = "alloc"]
                      ELSE [load[t] EXCEPT !.pc = "loaded"])
  /\ UNCHANGED <<now, page, replaced, linked, blocks, mixed, full, kills>>

\* index_time is set before the download begins.
Alloc(t) ==
  /\ Goes(t, "alloc", [Idle EXCEPT !.pc = "fetch", !.time = now])
  /\ UNCHANGED <<now, page, replaced, linked, blocks, mixed, full, kills>>

\* The page comes, and the links' types and sizes with it.
Fetch(t) ==
  /\ Goes(t, "fetch",
          [load[t] EXCEPT !.pc = "save", !.of = page,
                          !.links = [i \in 1..Size[page] |-> Entry(page, i)]])
  /\ UNCHANGED <<now, page, replaced, linked, blocks, mixed, full, kills>>

\* The page does not come: NULL, though an old listing may be there.
FetchFails(t) ==
  /\ Goes(t, "fetch", Idle)
  /\ UNCHANGED <<now, page, replaced, linked, blocks, mixed, full, kills>>

\* The caller is through with the table, and a later load is a new one.
Forget(t) ==
  /\ Goes(t, "loaded", Idle)
  /\ UNCHANGED <<now, page, replaced, linked, blocks, mixed, full, kills>>

-----------------------------------------------------------------------------
(* LinkTable_disk_save. *)

InUse == {linked} \cup {load[t].inode : t \in Threads}
Fresh == CHOOSE i \in Inodes : i \notin InUse
Saving(i) == {t \in Threads : load[t].pc = "write" /\ load[t].inode = i}

\* Mutant: index_time is set when the listing is saved.
SaveOpen_timed(t) ==
  LET inode == IF linked = None THEN Fresh ELSE linked
  IN  /\ Goes(t, "save", [load[t] EXCEPT !.pc = "write", !.inode = inode, !.time = now])
      /\ linked' = inode
      /\ blocks' = [blocks EXCEPT ![inode] = <<>>]
      /\ mixed' = IF Saving(inode) = {} THEN mixed \ {inode} ELSE mixed \cup {inode}
      /\ UNCHANGED <<now, page, replaced, full, kills>>

\* Threads that have read the header of this inode and not yet all its links.
Reading(i) == {t \in Threads : load[t].pc \in {"inspect", "entries"} /\ load[t].inode = i}

\* fopen(path, "w"): the file that is there is cut to nothing, its inode kept.
SaveOpen(t) ==
  LET inode == IF linked = None THEN Fresh ELSE linked
  IN  /\ load[t].pc = "save"
      /\ load' = [u \in Threads |->
                    IF u = t THEN [load[t] EXCEPT !.pc = "write", !.inode = inode]
                    ELSE [load[u] EXCEPT !.cut = @ \/ u \in Reading(inode)]]
      /\ linked' = inode
      /\ blocks' = [blocks EXCEPT ![inode] = <<>>]
      /\ mixed' = IF Saving(inode) = {} THEN mixed \ {inode} ELSE mixed \cup {inode}
      /\ UNCHANGED <<now, page, replaced, full, kills>>

\* fopen fails; the listing is the directory's all the same.
SaveFails(t) ==
  /\ Goes(t, "save", [load[t] EXCEPT !.pc = "loaded"])
  /\ UNCHANGED <<now, page, replaced, linked, blocks, mixed, full, kills>>

\* The file with a block at a place, which may be past the end.
Written(file, at, block) ==
  [i \in 1 .. (IF at > Len(file) THEN at ELSE Len(file)) |->
     IF i = at THEN block ELSE IF i <= Len(file) THEN file[i] ELSE Hole]

\* The next block leaves the buffer, for the disk if it takes it.
Flush(t) ==
  LET at == load[t].written + 1
      image == Image(load[t].of, load[t].time)
  IN  /\ at <= Len(image)
      /\ Goes(t, "write", [load[t] EXCEPT !.written = at])
      /\ blocks' = IF full THEN blocks
                   ELSE [blocks EXCEPT ![load[t].inode] = Written(@, at, image[at])]
      /\ UNCHANGED <<now, page, replaced, linked, mixed, full, kills>>

\* fclose after the last block; 0 or -1 changes nothing for the caller.
SaveClose(t) ==
  /\ load[t].written = Size[load[t].of] + 1
  /\ Goes(t, "write", [load[t] EXCEPT !.pc = "loaded", !.inode = None])
  /\ UNCHANGED <<now, page, replaced, linked, blocks, mixed, full, kills>>

-----------------------------------------------------------------------------

Tick ==
  /\ now < MaxTime
  /\ now' = now + 1
  /\ UNCHANGED <<page, replaced, linked, blocks, mixed, load, full, kills>>

PageChanges ==
  /\ page < Len(Size)
  /\ page' = page + 1
  /\ replaced' = [replaced EXCEPT ![page] = now]
  /\ UNCHANGED <<now, linked, blocks, mixed, load, full, kills>>

DiskFills ==
  /\ ~full /\ full' = TRUE
  /\ UNCHANGED <<now, page, replaced, linked, blocks, mixed, load, kills>>

\* The process dies, and the disk has room again when the next one starts.
Kill ==
  /\ kills < MaxKills /\ kills' = kills + 1
  /\ load' = [t \in Threads |-> Idle]
  /\ full' = FALSE
  /\ UNCHANGED <<now, page, replaced, linked, blocks, mixed>>

Next ==
  \/ \E t \in Threads :
       \/ DiskOpen(t) \/ ReadHeader(t) \/ Inspect(t) \/ ReadEntry(t)
       \/ ReadBuffered(t)
       \/ LinkTable_disk_delete(t)
       \/ CheckAge(t) \/ Alloc(t) \/ Fetch(t) \/ FetchFails(t) \/ Forget(t)
       \/ SaveOpen(t) \/ SaveFails(t) \/ Flush(t) \/ SaveClose(t)
  \/ Tick \/ PageChanges \/ DiskFills \/ Kill

Spec == Init /\ [][Next]_vars

-----------------------------------------------------------------------------
(* Properties. *)

\* A listing from the disk is the directory's, and no two saves met in its file.
ServesSaved(t) == load[t].pc = "loaded" /\ load[t].disk /\ ~load[t].sawMixed

\* The i-th link of a version, or parts of the i-th links of two.
InPlace(link, i) == link = Blend(i) \/ \E v \in Versions : link = Entry(v, i)

\* As many links as the header said, each in its place.
LinksInPlace(t) ==
  /\ Len(load[t].links) = Size[load[t].of]
  /\ \A i \in DOMAIN load[t].links : InPlace(load[t].links[i], i)

OneVersion(t) ==
  \E v \in Versions : load[t].links = [i \in 1..Size[v] |-> Entry(v, i)]

(* A listing read from the disk is the links of one version of the page, all  *)
(* of them, whatever was killed or did not fit on the disk while it was       *)
(* written.  If one save cut the file and wrote it again while it was read,   *)
(* the links may be of two versions, and one that was being read have parts   *)
(* of both: the checks of LinkTable_disk_open then see only to it that there  *)
(* are as many as the header said, none of them a hole or past the end.       *)
(* Files two saves met in are left out.                                       *)
ServedIsWhole ==
  \A t \in Threads :
    ServesSaved(t) => LinksInPlace(t) /\ (load[t].cut \/ OneVersion(t))

(* A listing is taken from the disk only while it is no more out of date than *)
(* --refresh-timeout says: the page it is from was the server's that long     *)
(* ago, or later.  For a file cut while it was read that is the page of its   *)
(* header.  LinkTable_new's index_time and age check.                         *)
ServedIsFresh ==
  [][\A t \in Threads :
       (load[t].pc = "check" /\ ServesSaved(t)') =>
         replaced[load[t].of] >= now - refresh_timeout]_vars
=============================================================================
