------------------------------ MODULE CacheDisk ------------------------------
(***************************************************************************)
(* The two files of a cached file on disk, and how they are opened,        *)
(* repaired, filled and closed: Cache_exist, Cache_delete, Cache_create,   *)
(* Cache_open, Cache_close and the Meta_ and Data_ functions of cache.c.   *)
(*                                                                         *)
(* The process may be killed between any two writes that reach the kernel. *)
(* cf_lock is held through Cache_open and Cache_close, so there is one     *)
(* thread of control here; the threads that store segments meanwhile are   *)
(* in SegmentCache.                                                        *)
(*                                                                         *)
(* A version of the file on the server has a time of its own, and a        *)
(* length; the metadata names, by both, the version its segments were      *)
(* asked for under.                                                        *)
(*                                                                         *)
(* Any of the calls that look at, open, read, write, size or unlink the    *)
(* files may fail.  Where the failure is fatal in the code (Meta_create and*)
(* Data_create cannot open, Cache_exist cannot unlink), or the code goes   *)
(* on with an object it has freed (Cache_create when Meta_open fails: its  *)
(* fclose is given a null FILE), the process ends there, which is Kill.    *)
(* Where it is logged and the code goes on, the step has a disjunct for it *)
(* that adds to faults.                                                    *)
(***************************************************************************)
EXTENDS Integers

CONSTANTS Segs,          \* the segments of the file
          MaxVersion,    \* bound: how often the file changes on the server
          Length,        \* the length of each version
          Odd            \* those whose length is no multiple of the stdio
                         \* buffer: usually the last one of a file

Versions == 1..MaxVersion

ASSUME DiskAssumption == /\ Odd \subseteq Segs /\ MaxVersion \in Nat \ {0}
                         /\ Length \in [Versions -> Nat \ {0}]

Hole == 0                     \* a segment of a sparse file

VARIABLES remote,   \* the file on the server
          link,     \* the version the listing shows
          meta,     \* the metadata file
          data,     \* the data file
          seg,      \* cf->seg, the bitmap in memory
          tail,     \* what the stdio buffer of cf->dfp holds
          attempt,  \* of the loop in Cache_open
          pc,
          faults,   \* history: the attempts in which a call failed
          leftover  \* history: Cache_delete could not unlink the data file

vars == <<remote, link, meta, data, seg, tail, attempt, pc, faults, leftover>>
world == <<remote, link>>
cf == <<seg, tail>>
history == <<faults, leftover>>

\* The metadata file is missing, zero-length, partly written or whole.
NoMeta == [state |-> "none", version |-> 0, bits |-> {}]
EmptyMeta == [NoMeta EXCEPT !.state = "empty"]
TornMeta == [NoMeta EXCEPT !.state = "torn"]
MetaOf(v, B) == [state |-> "whole", version |-> v, bits |-> B]

\* The data file is missing, zero-length or of the length of a version.
Holes == [s \in Segs |-> Hole]
NoData == [size |-> -1, holds |-> Holes]
EmptyData == [NoData EXCEPT !.size = 0]

Goto(label) == pc' = label

\* A call failed in this attempt; the unlinks before the next belong to it.
Fault == faults' = faults \cup {attempt}
FaultOfNext == faults' = faults \cup {attempt + 1}
NoFault == UNCHANGED faults

Init ==
  /\ remote = 1 /\ link = 1
  /\ meta = NoMeta /\ data = NoData
  /\ seg = {} /\ tail = Holes
  /\ attempt = 0 /\ pc = "closed"
  /\ faults = {} /\ leftover = FALSE

-----------------------------------------------------------------------------
(* Around the cache: the server, and the listing, which is reloaded only   *)
(* while no file of it is open.                                            *)

ServerChange ==
  /\ remote < MaxVersion
  /\ remote' = remote + 1
  /\ UNCHANGED <<link, meta, data, cf, attempt, pc, history>>

Relist ==
  /\ pc = "closed" /\ link # remote
  /\ link' = remote
  /\ UNCHANGED <<remote, meta, data, cf, attempt, pc, history>>

\* What was in the process is lost, what reached the kernel is not.  This
\* is also what follows a second failed attempt: Cache_open returns NULL and
\* fs_open ends the process.
Killed ==
  /\ seg' = {} /\ tail' = Holes
  /\ attempt' = 0 /\ Goto("closed")

Kill == pc # "closed" /\ Killed /\ UNCHANGED <<world, meta, data, history>>

-----------------------------------------------------------------------------
(* Cache_open                                                              *)

Open ==
  /\ pc = "closed"
  /\ attempt' = 0 /\ faults' = {} /\ Goto("exist")
  /\ UNCHANGED <<world, meta, data, cf, leftover>>

HasMeta == meta.state \in {"torn", "whole"}
HasData == data.size > 0

\* A file that stat shows without the other is removed.
Cache_exist(metaSeen, dataSeen) ==
  /\ meta' = IF metaSeen /\ ~dataSeen THEN NoMeta ELSE meta
  /\ data' = IF dataSeen /\ ~metaSeen THEN NoData ELSE data
  /\ leftover' = (leftover /\ data' # NoData)

\* A file that cannot be looked at counts as missing.
Exist ==
  /\ pc = "exist"
  /\ \E m, d \in BOOLEAN :
       /\ Cache_exist(HasMeta /\ m, HasData /\ d)
       /\ Goto(IF HasMeta /\ HasData /\ m /\ d THEN "open" ELSE "clear meta")
       /\ IF m /\ d THEN NoFault ELSE Fault
  /\ UNCHANGED <<world, cf, attempt>>

\* Cache_delete, before Cache_create and after an attempt that failed.  An
\* unlink that fails is logged.
UnlinkMeta ==
  /\ \/ /\ pc = "clear meta" /\ Goto("clear data")
        /\ (meta' = NoMeta /\ NoFault) \/ (UNCHANGED meta /\ Fault)
     \/ /\ pc = "drop meta" /\ Goto("drop data")
        /\ (meta' = NoMeta /\ NoFault) \/ (UNCHANGED meta /\ FaultOfNext)
  /\ UNCHANGED <<world, data, cf, attempt, leftover>>

UnlinkData ==
  /\ pc = "clear data"
  /\ Goto("create meta")
  /\ \/ data' = NoData /\ leftover' = FALSE /\ NoFault
     \/ UNCHANGED data /\ leftover' = (data # NoData) /\ Fault
  /\ UNCHANGED <<world, meta, cf, attempt>>

\* Mutant: the loop makes one attempt more.
NextAttempt_thrice ==
  /\ pc = "drop data"
  /\ \/ data' = NoData /\ leftover' = FALSE /\ NoFault
     \/ UNCHANGED data /\ leftover' = (data # NoData) /\ FaultOfNext
  /\ attempt' = attempt + 1
  /\ Goto(IF attempt <= 1 THEN "exist" ELSE "failed")
  /\ UNCHANGED <<world, meta, cf>>

NextAttempt ==
  /\ pc = "drop data"
  /\ \/ data' = NoData /\ leftover' = FALSE /\ NoFault
     \/ UNCHANGED data /\ leftover' = (data # NoData) /\ FaultOfNext
  /\ attempt' = attempt + 1
  /\ Goto(IF attempt = 0 THEN "exist" ELSE "failed")
  /\ UNCHANGED <<world, meta, cf>>

\* Meta_create, and Meta_write up to its fclose.
Meta_create ==
  /\ pc = "create meta"
  /\ meta' = EmptyMeta
  /\ Goto("write meta")
  /\ UNCHANGED <<world, data, cf, attempt, history>>

\* A write that fails leaves what was written before it, and Cache_create
\* goes on.
WriteMeta ==
  /\ pc = "write meta"
  /\ \/ meta.state = "empty" /\ meta' = TornMeta /\ NoFault /\ UNCHANGED pc
     \/ meta.state = "torn" /\ meta' = MetaOf(link, {}) /\ NoFault
        /\ Goto("create data")
     \/ UNCHANGED meta /\ Fault /\ Goto("create data")
  /\ UNCHANGED <<world, data, cf, attempt, leftover>>

\* Data_create: open with O_CREAT, then ftruncate, whose failure is logged.
Data_create ==
  /\ \/ /\ pc = "create data"
        /\ data' = IF data = NoData THEN EmptyData ELSE data
        /\ NoFault /\ Goto("size data")
     \/ /\ pc = "size data"
        /\ \/ data' = [data EXCEPT !.size = Length[link]] /\ NoFault
           \/ UNCHANGED data /\ Fault
        /\ Goto("verify")
  /\ UNCHANGED <<world, meta, cf, attempt, leftover>>

\* The end of Cache_create; a failure ends the process.
Verify ==
  /\ pc = "verify"
  /\ \E m, d \in BOOLEAN :
       /\ Cache_exist(HasMeta /\ m, HasData /\ d)
       /\ IF HasMeta /\ HasData /\ m /\ d
          THEN Goto("open") /\ UNCHANGED <<cf, attempt>>
          ELSE Killed
       /\ IF m /\ d THEN NoFault ELSE Fault
  /\ UNCHANGED world

\* Mutant: the time in the metadata is not compared with the link's.
Readable_anyTime == /\ meta.state = "whole"
                    /\ Length[meta.version] = Length[link]
                    /\ Length[link] <= data.size

\* What Meta_read and the look at Data_size accept.
Readable == /\ meta.state = "whole" /\ meta.version = link
            /\ Length[link] <= data.size

OpenFiles ==
  /\ pc = "open" /\ Readable
  /\ seg' = meta.bits /\ faults' = {}
  /\ Goto("opened")
  /\ UNCHANGED <<world, meta, data, tail, attempt, leftover>>

\* Mutant: the next attempt finds the files that failed this one.
OpenFails_keepsFiles ==
  /\ pc = "open"
  /\ IF Readable THEN Fault ELSE NoFault
  /\ attempt' = attempt + 1
  /\ Goto(IF attempt = 0 THEN "exist" ELSE "failed")
  /\ UNCHANGED <<world, meta, data, cf, leftover>>

\* The files are not those of the link, or are torn; or they are good, and
\* an fopen, an fread or the stat fails.
OpenFails ==
  /\ pc = "open"
  /\ IF Readable THEN Fault ELSE NoFault
  /\ Goto("drop meta")
  /\ UNCHANGED <<world, meta, data, cf, attempt, leftover>>

-----------------------------------------------------------------------------
(* An open cache: segments are stored, and the stdio buffer is flushed by  *)
(* the next fseeko.                                                        *)

Flushed == [s \in Segs |-> IF tail[s] # Hole THEN tail[s] ELSE data.holds[s]]

Flush ==
  /\ pc = "opened" /\ tail # Holes
  /\ data' = [data EXCEPT !.holds = Flushed]
  /\ tail' = Holes
  /\ UNCHANGED <<world, meta, seg, attempt, pc, history>>

\* Data_write of what the server now has: the fseeko before it flushes what
\* an earlier one left, and the end of an odd segment stays in the buffer.
Data_write(s) ==
  /\ tail' = IF s \in Odd THEN [Holes EXCEPT ![s] = remote] ELSE Holes
  /\ data' = [data EXCEPT !.holds = IF s \in Odd THEN Flushed
                                    ELSE [Flushed EXCEPT ![s] = remote]]

\* Mutant: the bit is set whatever Data_write returned.
Store_unchecked(s) ==
  /\ pc = "opened" /\ s \notin seg
  /\ Data_write(s) \/ UNCHANGED <<data, tail>>
  /\ seg' = seg \cup {s}
  /\ UNCHANGED <<world, meta, attempt, pc, history>>

\* The bit is set when Data_write wrote it all; otherwise the segment is
\* fetched again, and what the failed call flushed is Flush.
Store(s) ==
  /\ pc = "opened" /\ s \notin seg
  /\ Data_write(s)
  /\ seg' = seg \cup {s}
  /\ UNCHANGED <<world, meta, attempt, pc, history>>

-----------------------------------------------------------------------------
(* The last Cache_close: Meta_write, fclose of the metadata, fclose of the *)
(* data.                                                                   *)

Close ==
  /\ pc = "opened"
  /\ Goto("flush meta")
  /\ UNCHANGED <<world, meta, data, cf, attempt, history>>

\* A long bitmap reaches the kernel in pieces.
FlushPart ==
  /\ pc = "flush meta"
  /\ \E B \in SUBSET seg :
       meta' = MetaOf(meta.version, meta.bits \cup B)
  /\ UNCHANGED <<world, data, cf, attempt, pc, history>>

\* Mutant: the bitmap is freed before it is written.
FlushMeta_cleared ==
  /\ pc = "flush meta"
  /\ meta' \in {MetaOf(link, {}), meta}
  /\ Goto("flush data")
  /\ UNCHANGED <<world, data, cf, attempt, history>>

\* A failure is logged.
FlushMeta ==
  /\ pc = "flush meta"
  /\ meta' \in {MetaOf(link, seg), meta}
  /\ Goto("flush data")
  /\ UNCHANGED <<world, data, cf, attempt, history>>

\* A failure, say of a full disk, is logged.
FlushData ==
  /\ pc = "flush data"
  /\ data' \in {data, [data EXCEPT !.holds = Flushed]}
  /\ Killed
  /\ UNCHANGED <<world, meta, history>>

-----------------------------------------------------------------------------
Next ==
  \/ ServerChange \/ Relist \/ Kill
  \/ Open \/ Exist \/ UnlinkMeta \/ UnlinkData \/ NextAttempt
  \/ Meta_create \/ WriteMeta \/ Data_create \/ Verify
  \/ OpenFiles \/ OpenFails
  \/ Flush \/ (\E s \in Segs : Store(s))
  \/ Close \/ FlushPart \/ FlushMeta \/ FlushData

Spec == Init /\ [][Next]_vars

-----------------------------------------------------------------------------
Metas == [state : {"none", "empty", "torn", "whole"},
          version : {0} \cup Versions, bits : SUBSET Segs]
Holdings == [Segs -> {Hole} \cup Versions]
Datas == [size : {-1} \cup Nat, holds : Holdings]
Pcs == {"closed", "exist", "clear meta", "clear data", "create meta",
        "write meta", "create data", "size data", "verify", "open",
        "drop meta", "drop data", "failed", "opened", "flush meta",
        "flush data"}

\* Ranges; the bitmap and the buffer exist only while the cache is open.
TypeOK ==
  /\ remote \in Versions /\ link \in Versions /\ link <= remote
  /\ meta \in Metas /\ data \in Datas
  /\ seg \in SUBSET Segs /\ tail \in Holdings
  /\ attempt \in 0..2 /\ pc \in Pcs
  /\ faults \in SUBSET (0..2) /\ leftover \in BOOLEAN
  /\ pc \notin {"opened", "flush meta", "flush data"} => seg = {} /\ tail = Holes

\* The content of a segment, as Data_read sees it.
Content(s) == Flushed[s]

\* The bit of a segment of whole blocks stands for bytes that were
\* downloaded, whatever was going on when the process was last killed.
BitsBacked == \A s \in seg \ Odd : Content(s) # Hole

\* Cache_read_segment takes that of every bit.
EveryBitBacked == \A s \in seg : Content(s) # Hole

\* A cached segment is never older than the listing the cache was opened
\* under: a stale cache is thrown away, both files of it.  Only where the
\* data file could not be unlinked may its old bytes show through, at the end
\* of a segment that a kill kept in the stdio buffer.
NeverOlder ==
  \A s \in seg : \/ Content(s) = Hole \/ Content(s) >= link
                 \/ s \in Odd /\ leftover

\* The second attempt of Cache_open opens what the first one repaired, from
\* whatever a kill left behind: when it fails, which ends the process, a call
\* on the files failed in it.
OpensInTwo == pc = "failed" => 1 \in faults

Usable == /\ meta.state = "whole" /\ meta.version = link
          /\ Length[link] <= data.size

\* A cache that can be opened is neither deleted nor loses a bit while the
\* listing stays as it is, unless a look at its files fails in the attempt
\* that deletes it.
UsableKept ==
  [][Usable /\ link' = link
       => \/ Usable' /\ meta.bits \subseteq meta'.bits
          \/ attempt \in faults']_vars
=============================================================================
