----------------------------- MODULE SegmentCache -----------------------------
(***************************************************************************)
(* The permanent cache of one file: the Cache object of src/src/cache.c,   *)
(* the FUSE threads that read through it, its background download threads  *)
(* and the transfers of Link_download (src/src/link.c) they run.           *)
(*                                                                         *)
(* One action is one stretch of code that no other thread can observe half *)
(* done.  w_lock is a variable, because it is held over several such       *)
(* stretches; every dl_lock section is one action, because nothing inside  *)
(* one blocks.  seek_lock is only ever taken under w_lock and is left out. *)
(*                                                                         *)
(* A segment is downloaded in Chunks pieces, the calls of curl's write     *)
(* callback; a read of a segment needs the first `need' of them.  Bytes    *)
(* are "file" (the right ones), "junk" (anything else), or "unchecked":    *)
(* copied out of a transfer under way that brings something else, before   *)
(* Link_download has looked at its status and its length.                  *)
(***************************************************************************)
EXTENDS Integers, FiniteSets

CONSTANTS Readers,     \* FUSE threads, each with one handle on the file
          Workers,     \* background downloads: one per slot of bgt_sem
          AdIds,       \* heap cells for ActiveDownload nodes
          NSegs,       \* segments of the file
          Chunks,      \* write callbacks that deliver one segment
          Replies,     \* what the server may answer: see Reply
          ErrorPage,   \* chunks of the page that comes with an error status
          DiskFaults,  \* TRUE: Data_write and Data_read may fail
          None

\* The range asked for; that range cut short; status 200 and the whole file, as
\* from a server that ignores ranges; a temporary error; a permanent one; status
\* 416, which Link_download counts as success.
Reply == {"ok", "short", "whole", "temp", "gone", "unsat"}
Success == {"ok", "short", "whole", "unsat"}
Threads == Readers \cup Workers
Segs == 0 .. NSegs - 1
NumBgWorkers == Cardinality(Workers)

ASSUME CacheAssumption ==
  /\ Readers \cap Workers = {}
  /\ IsFiniteSet(Workers) /\ IsFiniteSet(Readers)
  /\ NSegs \in Nat \ {0} /\ Chunks \in Nat \ {0}
  /\ Replies \subseteq Reply
  /\ ErrorPage \in Nat /\ DiskFaults \in BOOLEAN
  /\ None \notin Threads \cup AdIds \cup Segs /\ None \notin Reply

VARIABLES
  cf_lock,        \* who holds the global open/close lock
  cache_opened,   \* handles on the Cache; 0: there is no Cache object
  shutting_down,
  w_lock,         \* who holds it
  bgt_sem,        \* free background download slots
  waiters,        \* cf->waiters
  active_dls,     \* the list of downloads in progress, a set of AdIds
  ad,             \* the ActiveDownload nodes
  asleep,         \* readers inside pthread_cond_wait on their node's cond
  seg,            \* the segments whose byte in cf->seg is 1
  meta,           \* the same, as Meta_write left it on disk
  data,           \* what the data file holds for each segment
  pc, dl_offset, need, orig_ad, send,   \* locals of Cache_read_segment
  ts,             \* each thread's TransferStruct
  recv,           \* what Link_download returned to the thread
  slots           \* bgt_sem slots a closing thread has collected

files   == <<seg, meta, data>>
list    == <<active_dls, ad, asleep, waiters>>
handles == <<cf_lock, cache_opened, shutting_down, slots>>
locals  == <<dl_offset, need, orig_ad, send>>
net     == <<ts, recv>>
vars    == <<cf_lock, cache_opened, shutting_down, w_lock, bgt_sem, waiters,
             active_dls, ad, asleep, seg, meta, data, pc, dl_offset, need,
             orig_ad, send, ts, recv, slots>>

FreeAd == [offset |-> None, ts |-> None, refcount |-> 0, unlinked |-> FALSE]
NoTransfer == [ad |-> None, size |-> 0, reply |-> None]

Init ==
  /\ cf_lock = None /\ cache_opened = 0 /\ shutting_down = FALSE
  /\ w_lock = None /\ bgt_sem = NumBgWorkers /\ waiters = 0
  /\ active_dls = {} /\ ad = [a \in AdIds |-> FreeAd] /\ asleep = {}
  /\ seg = {} /\ meta = {}
  /\ data = [s \in Segs |-> "empty"]
  /\ pc = [t \in Threads |-> IF t \in Readers THEN "closed" ELSE "idle"]
  /\ dl_offset = [t \in Threads |-> 0] /\ need = [r \in Readers |-> 1]
  /\ orig_ad = [r \in Readers |-> None] /\ send = [r \in Readers |-> "none"]
  /\ ts = [t \in Threads |-> NoTransfer]
  /\ recv = [t \in Threads |-> "none"]
  /\ slots = [r \in Readers |-> 0]

Goto(t, label) == pc' = [pc EXCEPT ![t] = label]

\* r's call returns send[r]; its other locals are dead, and reset here.
Return(r) == /\ Goto(r, "ready")
             /\ dl_offset' = [dl_offset EXCEPT ![r] = 0]
             /\ need' = [need EXCEPT ![r] = 1]

-----------------------------------------------------------------------------
(* The list of active downloads. *)

Seg_exist(s) == s \in seg

ActiveDownload_find(s) == {a \in active_dls : ad[a].offset = s}

\* CALLOC'ed cell a becomes the node of segment s, at the head of the list.
ActiveDownload_add(a, s) ==
  /\ ad[a].refcount = 0
  /\ ad' = [ad EXCEPT ![a] = [offset |-> s, ts |-> None, refcount |-> 1,
                              unlinked |-> FALSE]]
  /\ active_dls' = active_dls \cup {a}

ActiveDownload_ref(nodes, a) ==
  [nodes EXCEPT ![a].refcount = nodes[a].refcount + 1]

ActiveDownload_unref(nodes, a) ==
  [nodes EXCEPT ![a] =
     IF nodes[a].refcount = 1 THEN FreeAd
     ELSE [nodes[a] EXCEPT !.refcount = nodes[a].refcount - 1]]

Broadcast(a) == asleep' = {r \in asleep : orig_ad[r] # a}

\* Mutant: the broadcast is forgotten, so sleepers miss the end of a download.
ActiveDownload_remove_silent(s) ==
  /\ IF ActiveDownload_find(s) = {}
       THEN UNCHANGED <<active_dls, asleep, ad>>
       ELSE \E a \in ActiveDownload_find(s) :
              /\ active_dls' = active_dls \ {a}
              /\ ad' = ActiveDownload_unref([ad EXCEPT ![a].unlinked = TRUE], a)
              /\ UNCHANGED asleep
  /\ waiters' = waiters - 1

\* Unlinks the node of segment s, wakes who waits on it and drops the list's
\* reference; then Cache_waiter_decrement, which follows at every call.
ActiveDownload_remove(s) ==
  /\ IF ActiveDownload_find(s) = {}
       THEN UNCHANGED <<active_dls, asleep, ad>>
       ELSE \E a \in ActiveDownload_find(s) :
              /\ active_dls' = active_dls \ {a}
              /\ Broadcast(a)
              /\ ad' = ActiveDownload_unref([ad EXCEPT ![a].unlinked = TRUE], a)
  /\ waiters' = waiters - 1

-----------------------------------------------------------------------------
(* Opening the file: cf_lock is held throughout.  The first opener builds  *)
(* the Cache from the bitmap on disk.                                      *)

Cache_open(r) ==
  /\ pc[r] = "closed" /\ cf_lock = None
  /\ cache_opened' = cache_opened + 1
  /\ IF cache_opened = 0
       THEN /\ seg' = meta /\ bgt_sem' = NumBgWorkers /\ waiters' = 0
            /\ active_dls' = {} /\ shutting_down' = FALSE
       ELSE UNCHANGED <<seg, bgt_sem, waiters, active_dls, shutting_down>>
  /\ Goto(r, "ready")
  /\ UNCHANGED <<cf_lock, slots, w_lock, ad, asleep, meta, data, locals, net>>

-----------------------------------------------------------------------------
(* Cache_read_segment, on behalf of reader r. *)

StartRead(r) ==
  /\ pc[r] = "ready"
  /\ \E s \in Segs, n \in 1 .. Chunks :
       /\ dl_offset' = [dl_offset EXCEPT ![r] = s]
       /\ need' = [need EXCEPT ![r] = n]
  /\ send' = [send EXCEPT ![r] = "none"]
  /\ Goto(r, "lockW")
  /\ UNCHANGED <<handles, w_lock, bgt_sem, list, files, orig_ad, net>>

Answer(r, bytes) == send' = [send EXCEPT ![r] = bytes]

\* What Data_read of segment s may put in the output buffer.
Data_read(s) == {IF data[s] = "file" THEN "file" ELSE "junk"}
                  \cup (IF DiskFaults THEN {"EIO"} ELSE {})

\* Under w_lock: the segment is in the data file.
ReadCached(r) ==
  /\ pc[r] \in {"lockW", "relockW"} /\ w_lock = None
  /\ Seg_exist(dl_offset[r])
  /\ \E bytes \in Data_read(dl_offset[r]) : Answer(r, bytes)
  /\ Goto(r, "peekNext")
  /\ UNCHANGED <<handles, w_lock, bgt_sem, list, files, dl_offset, need,
                 orig_ad, net>>

\* The segment is missing: w_lock stays held.  Who comes from a download that
\* ended without storing it goes straight on to sync_dl.
MissCached(r) ==
  /\ pc[r] \in {"lockW", "relockW"} /\ w_lock = None
  /\ ~Seg_exist(dl_offset[r])
  /\ w_lock' = r
  /\ Goto(r, IF pc[r] = "lockW" THEN "findAd" ELSE "syncDl")
  /\ UNCHANGED <<handles, bgt_sem, list, files, locals, net>>

\* Enough of download a has arrived for the read of r: ts->data, ts->curr_size.
CanCopy(r, a) == ad[a].ts # None /\ ts[ad[a].ts].size >= need[r]

\* A body that starts with the bytes of segment s.
RightBytes(reply, s) == \/ reply \in {"ok", "short"}
                        \/ reply = "whole" /\ s = 0

CopiedBytes(a) == IF RightBytes(ts[ad[a].ts].reply, ad[a].offset)
                    THEN "file" ELSE "unchecked"

\* Somebody is downloading the segment: copy from its buffer, or register and
\* sleep on the node's condition variable.  dl_lock is held all the while.
JoinDownload(r) ==
  /\ pc[r] = "findAd"
  /\ \E a \in ActiveDownload_find(dl_offset[r]) :
       IF CanCopy(r, a)
       THEN /\ Answer(r, CopiedBytes(a)) /\ Goto(r, "peekNext")
            /\ UNCHANGED <<ad, waiters, asleep, orig_ad>>
       ELSE /\ ad' = ActiveDownload_ref(ad, a)
            /\ orig_ad' = [orig_ad EXCEPT ![r] = a]
            /\ waiters' = waiters + 1 /\ asleep' = asleep \cup {r}
            /\ Goto(r, "wait") /\ UNCHANGED send
  /\ w_lock' = None
  /\ UNCHANGED <<handles, bgt_sem, active_dls, files, dl_offset, need, net>>

\* Mutant: the waiter keeps its reference.
LeaveWait_leaky(r) == /\ waiters' = waiters - 1 /\ UNCHANGED ad
                      /\ orig_ad' = [orig_ad EXCEPT ![r] = None]

\* r leaves the wait loop: unregister and drop its reference.
LeaveWait(r) ==
  /\ waiters' = waiters - 1
  /\ ad' = ActiveDownload_unref(ad, orig_ad[r])
  /\ orig_ad' = [orig_ad EXCEPT ![r] = None]

Awake(r) == pc[r] = "wait" /\ r \notin asleep

EndWait(r) == shutting_down \/ ad[orig_ad[r]].unlinked

EarlyReturn(r) ==
  /\ Awake(r) /\ ~EndWait(r) /\ CanCopy(r, orig_ad[r])
  /\ LeaveWait(r)
  /\ Answer(r, CopiedBytes(orig_ad[r])) /\ Goto(r, "peekNext")
  /\ UNCHANGED <<handles, w_lock, bgt_sem, active_dls, asleep, files,
                 dl_offset, need, net>>

SleepAgain(r) ==
  /\ Awake(r) /\ ~EndWait(r) /\ ~CanCopy(r, orig_ad[r])
  /\ asleep' = asleep \cup {r}
  /\ UNCHANGED <<handles, w_lock, bgt_sem, active_dls, ad, waiters, files, pc,
                 locals, net>>

\* Mutant: it takes the segment for stored because its download has ended.
DownloadEnded_trusting(r) ==
  /\ Awake(r) /\ EndWait(r) /\ LeaveWait(r)
  /\ Answer(r, "file") /\ Goto(r, "peekNext")
  /\ UNCHANGED <<handles, w_lock, bgt_sem, active_dls, asleep, files, net,
                 dl_offset, need>>

DownloadEnded(r) ==
  /\ Awake(r) /\ EndWait(r)
  /\ LeaveWait(r)
  /\ IF shutting_down
       THEN Answer(r, "EIO") /\ Return(r)
       ELSE Goto(r, "relockW") /\ UNCHANGED <<send, dl_offset, need>>
  /\ UNCHANGED <<handles, w_lock, bgt_sem, active_dls, asleep, files, net>>

NoDownload(r) ==
  /\ pc[r] = "findAd" /\ ActiveDownload_find(dl_offset[r]) = {}
  /\ Goto(r, "trySlot")
  /\ UNCHANGED <<handles, w_lock, bgt_sem, list, files, locals, net>>

\* SEM_TRYWAIT: a free slot means a background download, none means sync_dl.
TrySlot(r) ==
  /\ pc[r] = "trySlot"
  /\ IF bgt_sem > 0 THEN bgt_sem' = bgt_sem - 1 /\ Goto(r, "addBg")
                    ELSE Goto(r, "syncDl") /\ UNCHANGED bgt_sem
  /\ UNCHANGED <<handles, w_lock, list, files, locals, net>>

\* The double check before a background download of the segment itself.
AddBg(r) ==
  /\ pc[r] = "addBg"
  /\ IF ActiveDownload_find(dl_offset[r]) = {}
       THEN /\ \E a \in AdIds : ActiveDownload_add(a, dl_offset[r])
            /\ Goto(r, "launch") /\ UNCHANGED bgt_sem
       ELSE /\ bgt_sem' = bgt_sem + 1 /\ Goto(r, "syncDl")
            /\ UNCHANGED <<active_dls, ad>>
  /\ UNCHANGED <<handles, w_lock, asleep, waiters, files, locals, net>>

\* Registers the new thread w, then creates it; r goes on to label.
Cache_bgdl_launcher(r, w, label) ==
  /\ pc[w] = "idle"
  /\ waiters' = waiters + 1
  /\ pc' = [pc EXCEPT ![w] = "attempt", ![r] = label]

Launch(r) ==
  /\ pc[r] = "launch"
  /\ \E w \in Workers : /\ Cache_bgdl_launcher(r, w, "lockW")
                        /\ dl_offset' = [dl_offset EXCEPT ![w] = dl_offset[r]]
  /\ w_lock' = None
  /\ UNCHANGED <<handles, bgt_sem, active_dls, ad, asleep, files, need,
                 orig_ad, send, net>>

\* sync_dl: somebody else started in the meantime, so join them.
SyncRetry(r) ==
  /\ pc[r] = "syncDl" /\ ActiveDownload_find(dl_offset[r]) # {}
  /\ w_lock' = None
  /\ Goto(r, "lockW")
  /\ UNCHANGED <<handles, bgt_sem, list, files, locals, net>>

\* Mutant: sync_dl without its double check.
SyncStart_unchecked(r) ==
  /\ pc[r] = "syncDl"
  /\ \E a \in AdIds : ActiveDownload_add(a, dl_offset[r])
  /\ waiters' = waiters + 1 /\ w_lock' = None /\ Goto(r, "attempt")
  /\ UNCHANGED <<handles, bgt_sem, asleep, files, locals, net>>

SyncStart(r) ==
  /\ pc[r] = "syncDl" /\ ActiveDownload_find(dl_offset[r]) = {}
  /\ \E a \in AdIds : ActiveDownload_add(a, dl_offset[r])
  /\ waiters' = waiters + 1
  /\ w_lock' = None
  /\ Goto(r, "attempt")
  /\ UNCHANGED <<handles, bgt_sem, asleep, files, locals, net>>

-----------------------------------------------------------------------------
(* Link_download, on behalf of any thread t. *)

\* The head of its loop: publish a fresh TransferStruct in the node and wake
\* the readers that wait on it.  What the server is about to answer is chosen
\* here.
Attempt(t, reply) ==
  /\ pc[t] = "attempt"
  /\ \E a \in ActiveDownload_find(dl_offset[t]) :
       /\ ad' = ActiveDownload_ref([ad EXCEPT ![a].ts = t], a)
       /\ ts' = [ts EXCEPT ![t] = [ad |-> a, size |-> 0, reply |-> reply]]
       /\ Broadcast(a)
  /\ Goto(t, "transfer")
  /\ UNCHANGED <<handles, w_lock, bgt_sem, active_dls, waiters, files, locals,
                 recv>>

\* The most that a reply's body delivers.
Body(reply) == CASE reply = "ok" -> Chunks
                 [] reply = "short" -> Chunks - 1
                 [] reply = "whole" -> NSegs * Chunks
                 [] OTHER -> ErrorPage

\* write_memory_callback: it appends whatever the status of the reply, and with
\* no regard to the length asked for.
ReceiveChunk(t) ==
  /\ pc[t] = "transfer" /\ ts[t].size < Body(ts[t].reply)
  /\ ts' = [ts EXCEPT ![t].size = ts[t].size + 1]
  /\ Broadcast(ts[t].ad)
  /\ UNCHANGED <<handles, w_lock, bgt_sem, active_dls, ad, waiters, files, pc,
                 locals, recv>>

\* Mutant: the node goes on pointing to the transfer that has ended.
Link_download_finish_transfer_dangling(t) ==
  /\ ad' = ActiveDownload_unref(ad, ts[t].ad)
  /\ ts' = [ts EXCEPT ![t] = NoTransfer]

Link_download_finish_transfer(t) ==
  /\ ad' = ActiveDownload_unref(
             [a \in AdIds |-> IF a \in ActiveDownload_find(dl_offset[t])
                                 /\ ad[a].ts = t
                              THEN [ad[a] EXCEPT !.ts = None] ELSE ad[a]],
             ts[t].ad)
  /\ ts' = [ts EXCEPT ![t] = NoTransfer]

\* Mutant: a body of another length than the range asked for is taken as well.
TransferOk_unchecked(t) ==
  /\ pc[t] = "transfer" /\ ts[t].reply \in Success
  /\ ts[t].size = Body(ts[t].reply)
  /\ Link_download_finish_transfer(t)
  /\ recv' = [recv EXCEPT ![t] = IF RightBytes(ts[t].reply, dl_offset[t])
                                      /\ ts[t].size >= Chunks
                                   THEN "file" ELSE "junk"]
  /\ Goto(t, "store")
  /\ UNCHANGED <<handles, w_lock, bgt_sem, active_dls, asleep, waiters, files,
                 locals>>

\* Status 200, 206 or 416 and a body exactly as long as the range asked for.
TransferOk(t) ==
  /\ pc[t] = "transfer" /\ ts[t].reply \in Success
  /\ ts[t].size = Chunks /\ Body(ts[t].reply) = Chunks
  /\ Link_download_finish_transfer(t)
  /\ recv' = [recv EXCEPT ![t] = IF RightBytes(ts[t].reply, dl_offset[t])
                                   THEN "file" ELSE "junk"]
  /\ Goto(t, "store")
  /\ UNCHANGED <<handles, w_lock, bgt_sem, active_dls, asleep, waiters, files,
                 locals>>

\* A permanent error, wherever the body breaks off.  A background thread untracks
\* without w_lock.
TransferGone(t) ==
  /\ pc[t] = "transfer" /\ ts[t].reply = "gone"
  /\ Link_download_finish_transfer(t)
  /\ recv' = [recv EXCEPT ![t] = "ENOENT"]
  /\ Goto(t, IF t \in Workers THEN "untrack" ELSE "store")
  /\ UNCHANGED <<handles, w_lock, bgt_sem, active_dls, asleep, waiters, files,
                 locals>>

\* A temporary failure, or fewer or more bytes than asked for: free the buffer,
\* sleep and go round the loop again.
TransferRetry(t) ==
  /\ pc[t] = "transfer"
  /\ \/ ts[t].reply = "temp"
     \/ ts[t].reply \in Success \ {"ok"} /\ ts[t].size # Chunks
  /\ Link_download_finish_transfer(t)
  /\ Goto(t, "attempt")
  /\ UNCHANGED <<handles, w_lock, bgt_sem, active_dls, asleep, waiters, files,
                 locals, recv>>

-----------------------------------------------------------------------------
(* After Link_download: store the segment, then untrack the download. *)

\* Mutant: Seg_set whatever Data_write returned.
StoreSegment_unchecked(s, bytes) ==
  \E wrote \in {TRUE} \cup (IF DiskFaults THEN {FALSE} ELSE {}) :
    /\ data' = [data EXCEPT ![s] = IF wrote THEN bytes ELSE "torn"]
    /\ seg' = seg \cup {s}
    /\ UNCHANGED meta

\* Data_write, and Seg_set only when every byte was written.
StoreSegment(s, bytes) ==
  \E wrote \in {TRUE} \cup (IF DiskFaults THEN {FALSE} ELSE {}) :
    /\ data' = [data EXCEPT ![s] = IF wrote THEN bytes ELSE "torn"]
    /\ seg' = IF wrote THEN seg \cup {s} ELSE seg
    /\ UNCHANGED meta

\* A reader keeps w_lock until it has untracked, a background thread does not.
Store(t) ==
  /\ pc[t] = "store" /\ recv[t] \in {"file", "junk"} /\ w_lock = None
  /\ StoreSegment(dl_offset[t], recv[t])
  /\ w_lock' = IF t \in Readers THEN t ELSE None
  /\ Goto(t, "untrack")
  /\ UNCHANGED <<handles, bgt_sem, list, locals, net>>

SyncFailed(r) ==
  /\ pc[r] = "store" /\ recv[r] = "ENOENT" /\ w_lock = None
  /\ ActiveDownload_remove(dl_offset[r])
  /\ Answer(r, "ENOENT")
  /\ recv' = [recv EXCEPT ![r] = "none"]
  /\ Return(r)
  /\ UNCHANGED <<handles, w_lock, bgt_sem, files, orig_ad, ts>>

SyncUntrack(r) ==
  /\ r \in Readers /\ pc[r] = "untrack"
  /\ ActiveDownload_remove(dl_offset[r])
  /\ Answer(r, recv[r])
  /\ recv' = [recv EXCEPT ![r] = "none"]
  /\ w_lock' = None
  /\ Goto(r, "peekNext")
  /\ UNCHANGED <<handles, bgt_sem, files, dl_offset, need, orig_ad, ts>>

BgUntrack(w) ==
  /\ w \in Workers /\ pc[w] = "untrack"
  /\ ActiveDownload_remove(dl_offset[w])
  /\ recv' = [recv EXCEPT ![w] = "none"]
  /\ Goto(w, "post")
  /\ UNCHANGED <<handles, w_lock, bgt_sem, files, locals, ts>>

\* Mutant: the thread exits without giving its slot back.
BgPost_forgotten(w) ==
  /\ pc[w] = "post"
  /\ Goto(w, "idle") /\ dl_offset' = [dl_offset EXCEPT ![w] = 0]
  /\ UNCHANGED <<handles, w_lock, bgt_sem, list, files, need, orig_ad, send,
                 net>>

BgPost(w) ==
  /\ pc[w] = "post"
  /\ bgt_sem' = bgt_sem + 1
  /\ Goto(w, "idle")
  /\ dl_offset' = [dl_offset EXCEPT ![w] = 0]
  /\ UNCHANGED <<handles, w_lock, list, files, need, orig_ad, send, net>>

-----------------------------------------------------------------------------
(* The tail of Cache_read_segment: prefetch the next segment. *)

\* Mutant: next_seg_missing without its test for the end of the file.
Missing_unbounded(s) == ~Seg_exist(s)

\* next_seg_missing.
Missing(s) == s \in Segs /\ ~Seg_exist(s)

PeekNext(r) ==
  /\ pc[r] = "peekNext"
  /\ dl_offset[r] + 1 \in Segs => w_lock = None
  /\ IF Missing(dl_offset[r] + 1)
       THEN Goto(r, "tryNext") /\ UNCHANGED <<dl_offset, need>>
       ELSE Return(r)
  /\ UNCHANGED <<handles, w_lock, bgt_sem, list, files, orig_ad, send, net>>

TryNextSlot(r) ==
  /\ pc[r] = "tryNext"
  /\ IF bgt_sem > 0
       THEN /\ bgt_sem' = bgt_sem - 1 /\ Goto(r, "addNext")
            /\ UNCHANGED <<dl_offset, need>>
       ELSE Return(r) /\ UNCHANGED bgt_sem
  /\ UNCHANGED <<handles, w_lock, list, files, orig_ad, send, net>>

\* Mutants: next_seg_missing is not read again after SEM_TRYWAIT; the list is
\* searched and extended without w_lock; the slot is kept on backing off.
AddNext_with(r, guard, missing, post) ==
  /\ pc[r] = "addNext" /\ guard
  /\ IF missing /\ ActiveDownload_find(dl_offset[r] + 1) = {}
       THEN /\ \E a \in AdIds : ActiveDownload_add(a, dl_offset[r] + 1)
            /\ Goto(r, "launchNext") /\ UNCHANGED <<bgt_sem, dl_offset, need>>
       ELSE /\ bgt_sem' = bgt_sem + post /\ Return(r)
            /\ UNCHANGED <<active_dls, ad>>
  /\ UNCHANGED <<handles, w_lock, asleep, waiters, files, orig_ad, send, net>>
AddNext_stale(r) == AddNext_with(r, w_lock = None, TRUE, 1)
AddNext_unlocked(r) == AddNext_with(r, TRUE, Missing(dl_offset[r] + 1), 1)
AddNext_keepsSlot(r) ==
  AddNext_with(r, w_lock = None, Missing(dl_offset[r] + 1), 0)

AddNext(r) ==
  /\ pc[r] = "addNext" /\ w_lock = None
  /\ IF Missing(dl_offset[r] + 1)
          /\ ActiveDownload_find(dl_offset[r] + 1) = {}
       THEN /\ \E a \in AdIds : ActiveDownload_add(a, dl_offset[r] + 1)
            /\ Goto(r, "launchNext") /\ UNCHANGED <<bgt_sem, dl_offset, need>>
       ELSE /\ bgt_sem' = bgt_sem + 1 /\ Return(r)
            /\ UNCHANGED <<active_dls, ad>>
  /\ UNCHANGED <<handles, w_lock, asleep, waiters, files, orig_ad, send, net>>

LaunchNext(r) ==
  /\ pc[r] = "launchNext"
  /\ \E w \in Workers :
       /\ Cache_bgdl_launcher(r, w, "ready")
       /\ dl_offset' = [dl_offset EXCEPT ![w] = dl_offset[r] + 1, ![r] = 0]
  /\ need' = [need EXCEPT ![r] = 1]
  /\ UNCHANGED <<handles, w_lock, bgt_sem, active_dls, ad, asleep, files,
                 orig_ad, send, net>>

-----------------------------------------------------------------------------
(* Cache_close.  FUSE releases a handle when no read on it is under way.   *)

Cache_close(r) ==
  /\ pc[r] = "ready" /\ cf_lock = None
  /\ cache_opened' = cache_opened - 1
  /\ IF cache_opened > 1 THEN Goto(r, "closed") /\ UNCHANGED cf_lock
                         ELSE Goto(r, "closing") /\ cf_lock' = r
  /\ Answer(r, "none")
  /\ UNCHANGED <<shutting_down, slots, w_lock, bgt_sem, list, files,
                 dl_offset, need, orig_ad, net>>

\* The last closer takes every slot, so that no background thread is left.
CollectSlot(r) ==
  /\ pc[r] = "closing" /\ slots[r] < NumBgWorkers /\ bgt_sem > 0
  /\ bgt_sem' = bgt_sem - 1
  /\ slots' = [slots EXCEPT ![r] = @ + 1]
  /\ UNCHANGED <<cf_lock, cache_opened, shutting_down, w_lock, list, files, pc,
                 locals, net>>

\* Mutants: the last closer does not wait for the background threads; the
\* bitmap is not written.
SaveAndShutDown_with(r, guard, bitmap) ==
  /\ pc[r] = "closing" /\ guard
  /\ meta' = bitmap /\ shutting_down' = TRUE /\ active_dls' = {}
  /\ asleep' = {x \in asleep : orig_ad[x] \notin active_dls}
  /\ ad' = [a \in AdIds |->
              IF a \in active_dls
              THEN ActiveDownload_unref([ad EXCEPT ![a].unlinked = TRUE], a)[a]
              ELSE ad[a]]
  /\ Goto(r, "freeing")
  /\ UNCHANGED <<cf_lock, cache_opened, slots, w_lock, bgt_sem, waiters, seg,
                 data, locals, net>>
SaveAndShutDown_hasty(r) == SaveAndShutDown_with(r, TRUE, seg)
SaveAndShutDown_unsaved(r) ==
  SaveAndShutDown_with(r, slots[r] = NumBgWorkers, meta)

\* Meta_write, then the first half of Cache_free: unlink what is still listed.
SaveAndShutDown(r) ==
  /\ pc[r] = "closing" /\ slots[r] = NumBgWorkers
  /\ meta' = seg
  /\ shutting_down' = TRUE
  /\ active_dls' = {}
  /\ asleep' = {x \in asleep : orig_ad[x] \notin active_dls}
  /\ ad' = [a \in AdIds |->
              IF a \in active_dls
              THEN ActiveDownload_unref([ad EXCEPT ![a].unlinked = TRUE], a)[a]
              ELSE ad[a]]
  /\ Goto(r, "freeing")
  /\ UNCHANGED <<cf_lock, cache_opened, slots, w_lock, bgt_sem, waiters, seg,
                 data, locals, net>>

\* Cache_free ends when nobody is registered any more; then cf_lock.
FreeCache(r) ==
  /\ pc[r] = "freeing" /\ waiters = 0
  /\ cf_lock' = None
  /\ slots' = [slots EXCEPT ![r] = 0]
  /\ Goto(r, "closed")
  /\ UNCHANGED <<cache_opened, shutting_down, w_lock, bgt_sem, list, files,
                 locals, net>>

-----------------------------------------------------------------------------
Download(t) == \/ \E reply \in Replies : Attempt(t, reply)
               \/ ReceiveChunk(t) \/ TransferOk(t) \/ TransferGone(t)
               \/ TransferRetry(t) \/ Store(t)

ReadStep(r) == \/ ReadCached(r) \/ MissCached(r) \/ JoinDownload(r)
               \/ EarlyReturn(r) \/ SleepAgain(r) \/ DownloadEnded(r)
               \/ NoDownload(r) \/ TrySlot(r) \/ AddBg(r) \/ Launch(r)
               \/ SyncRetry(r) \/ SyncStart(r)
               \/ SyncFailed(r) \/ SyncUntrack(r)
               \/ PeekNext(r) \/ TryNextSlot(r) \/ AddNext(r) \/ LaunchNext(r)

CloseStep(r) == CollectSlot(r) \/ SaveAndShutDown(r) \/ FreeCache(r)

Reader(r) == \/ Cache_open(r) \/ StartRead(r) \/ ReadStep(r)
             \/ Cache_close(r) \/ CloseStep(r)

Bgdl(w) == BgUntrack(w) \/ BgPost(w)

Next == \/ \E t \in Threads : Download(t)
        \/ \E r \in Readers : Reader(r)
        \/ \E w \in Workers : Bgdl(w)

Spec == Init /\ [][Next]_vars

(***************************************************************************)
(* Fairness.  Every thread that can take a step takes one (WF); a thread   *)
(* that keeps finding w_lock free in the end gets it (SF: it is held only  *)
(* for short stretches, never during a transfer); and a server that is     *)
(* asked again and again answers properly in the end (SF: Link_download    *)
(* never gives up on a temporary failure, and a reader whose background    *)
(* download failed before it could join it starts another).  No fairness   *)
(* on opening, starting a read or closing: those are the user's.           *)
(***************************************************************************)
TakesWLock(t) == \/ Store(t)
                 \/ t \in Readers /\ \/ ReadCached(t) \/ MissCached(t)
                                     \/ PeekNext(t) \/ AddNext(t)
                                     \/ SyncFailed(t)

Answers(t) == "ok" \in Replies /\ Attempt(t, "ok")

FairSpec ==
  /\ Spec
  /\ \A t \in Threads : /\ WF_vars(Download(t)) /\ SF_vars(TakesWLock(t))
                        /\ SF_vars(Answers(t))
  /\ \A r \in Readers : WF_vars(ReadStep(r)) /\ WF_vars(CloseStep(r))
  /\ \A w \in Workers : WF_vars(Bgdl(w))

-----------------------------------------------------------------------------
(* Properties. *)

ReaderPcs == {"closed", "ready", "lockW", "relockW", "findAd", "wait",
              "trySlot", "addBg", "launch", "syncDl", "attempt", "transfer",
              "store", "untrack", "peekNext", "tryNext", "addNext",
              "launchNext", "closing", "freeing"}
WorkerPcs == {"idle", "attempt", "transfer", "store", "untrack", "post"}

AdNode == [offset : Segs \cup {None}, ts : Threads \cup {None},
           refcount : Int, unlinked : BOOLEAN]
Transfer == [ad : AdIds \cup {None}, size : Nat,
             reply : Replies \cup {None}]

HandlesOK == /\ cf_lock \in Readers \cup {None} /\ cache_opened \in Int
             /\ shutting_down \in BOOLEAN /\ slots \in [Readers -> Int]
             /\ w_lock \in Threads \cup {None} /\ bgt_sem \in Int
ListOK    == /\ active_dls \in SUBSET AdIds /\ asleep \in SUBSET Readers
             /\ ad \in [AdIds -> AdNode] /\ waiters \in Int
FilesOK   == /\ seg \in SUBSET Segs /\ meta \in SUBSET Segs
             /\ data \in [Segs -> {"empty", "torn", "file", "junk"}]
PcOK      == /\ pc \in [Threads -> ReaderPcs \cup WorkerPcs]
             /\ \A r \in Readers : pc[r] \in ReaderPcs
             /\ \A w \in Workers : pc[w] \in WorkerPcs
LocalsOK  == /\ dl_offset \in [Threads -> Segs]
             /\ need \in [Readers -> 1 .. Chunks]
             /\ orig_ad \in [Readers -> AdIds \cup {None}]
             /\ send \in [Readers -> {"none", "file", "junk", "unchecked",
                                      "EIO", "ENOENT"}]
NetOK     == /\ ts \in [Threads -> Transfer]
             /\ recv \in [Threads -> {"none", "file", "junk", "ENOENT"}]

\* Type invariant: the range of every variable.
TypeOK == HandlesOK /\ ListOK /\ FilesOK /\ PcOK /\ LocalsOK /\ NetOK

Downloading(t) == pc[t] \in {"attempt", "transfer", "store", "untrack"}

\* The segment each thread has put, or found, in active_dls as its owner.
Owns(t, s) == \/ Downloading(t) /\ dl_offset[t] = s
              \/ pc[t] = "launch" /\ dl_offset[t] = s
              \/ pc[t] = "launchNext" /\ dl_offset[t] + 1 = s

\* No duplicate downloads: a segment is listed at most once, it is listed
\* exactly while some thread is bound to untrack it, and that is one thread
\* (cache.c: "To prevent race conditions, memory leaks, and duplicate
\* downloads").
SingleDownload ==
  \A s \in Segs :
    /\ \A a, b \in ActiveDownload_find(s) : a = b
    /\ \A t, u \in Threads : Owns(t, s) /\ Owns(u, s) => t = u
    /\ ActiveDownload_find(s) # {} <=> \E t \in Threads : Owns(t, s)

Indicator(P) == IF P THEN 1 ELSE 0

\* An ActiveDownload is alive exactly while the list, a waiting reader or a
\* transfer points to it, and counts them; so no pointer dangles, whatever
\* order the last waiter, the transfer and the untracking come in.
RefCounts ==
  \A a \in AdIds :
    /\ ad[a].refcount = Indicator(a \in active_dls)
                        + Cardinality({r \in Readers : orig_ad[r] = a})
                        + Cardinality({t \in Threads : ts[t].ad = a})
    /\ ad[a].unlinked => a \notin active_dls

\* The buffer a waiting reader copies from belongs to a transfer that is still
\* under way: Link_download clears ad->ts before it frees ts.data.
NoDanglingTransfer ==
  \A a \in AdIds : ad[a].ts # None => /\ pc[ad[a].ts] = "transfer"
                                      /\ ts[ad[a].ts].ad = a

\* bgt_sem is conserved: free slots, slots in a thread's hands between
\* SEM_TRYWAIT and the end of its background download, and slots the last
\* closer has collected are num_bg_workers in all.
SlotsConserved ==
  cache_opened > 0 \/ cf_lock # None =>
    bgt_sem + (IF cf_lock = None THEN 0 ELSE slots[cf_lock])
      + Cardinality({r \in Readers :
                       pc[r] \in {"addBg", "launch", "addNext", "launchNext"}})
      + Cardinality({w \in Workers : pc[w] # "idle"}) = NumBgWorkers

\* The one reply of the wrong kind that Link_download cannot tell from the right
\* one is left out: a 416 whose page is exactly as long as the range asked for.
\* (So is a whole file cut off exactly there: TransferOk has no such case.)
NoLookalike == "unsat" \in Replies => ErrorPage # Chunks

\* The server honours ranges, and sends no page with an error status.
FaithfulServer == "whole" \notin Replies /\ ErrorPage = 0

\* A segment the bitmap shows, in memory or on disk, is whole in the data file
\* and holds the file's bytes, whatever the replies it took to get them
\* (link.c: "req_size != recv").
BitmapSound == \A s \in seg \cup meta : data[s] = "file"

\* A read returns the file's bytes, an error, or what a transfer still under way
\* had brought (CopiesAreFile); never what a failed write left in the data file,
\* nor the body of a reply that Link_download has turned down.
ReadsFileOrError == \A r \in Readers : send[r] # "junk"

\* What a waiter copies from a transfer under way are the file's bytes.
CopiesAreFile == \A r \in Readers : send[r] # "unchecked"

\* When the last closer starts to free the Cache, no download, waiter or
\* background thread is left: the slots it has collected saw to that.
QuietTeardown ==
  \A r \in Readers :
    pc[r] = "freeing" => /\ active_dls = {} /\ waiters = 0
                         /\ \A a \in AdIds : ad[a] = FreeAd
                         /\ \A w \in Workers : pc[w] = "idle"

\* Every add happens under w_lock, so the second look before a background
\* download never finds a rival: its back-off branch is dead code.
AddBgFindsNoRival ==
  \A r \in Readers : pc[r] = "addBg" => ActiveDownload_find(dl_offset[r]) = {}

\* A download never starts on a segment the bitmap shows.
NoRefetch ==
  [][\A s \in Segs :
       ActiveDownload_find(s) = {} /\ ActiveDownload_find(s)' # {}
         => s \notin seg /\ s \notin seg']_vars

\* While the Cache is open a segment's bit is never cleared; closing and
\* opening again loses no bit.
BitsKept == [][cache_opened > 0 \/ cf_lock # None
                => /\ seg \subseteq seg'
                   /\ cf_lock # None /\ cf_lock' = None => seg \subseteq meta']_vars

Reading(r) == pc[r] \notin {"closed", "ready", "closing", "freeing"}

\* Every read returns, and every close ends: no broadcast is lost, no thread
\* waits for a download nobody runs.
ReadReturns == \A r \in Readers : Reading(r) ~> pc[r] = "ready"
CloseReturns == \A r \in Readers : pc[r] = "closing" ~> pc[r] = "closed"
=============================================================================
