-------------------------- MODULE SegmentCacheLocks ---------------------------
(***************************************************************************)
(* Ranges, and what w_lock protects.  Four facts are inductive together    *)
(* with the type invariant: LaunchNext hands dl_offset[r] + 1 to a         *)
(* background thread, a segment of the file only because PeekNext saw      *)
(* that it is one; who holds w_lock is where the program counter says; a   *)
(* reader that looks for, or starts, a download under w_lock does so for a *)
(* segment the bitmap does not show; and the bitmap on disk never shows    *)
(* more than the one in memory, so that opening the file again brings no   *)
(* surprise to a reader under way.                                         *)
(***************************************************************************)
EXTENDS SegmentCache, FiniteSetTheorems, TLAPS

-----------------------------------------------------------------------------
(* The type invariant. *)

NextInRange ==
  \A r \in Readers : pc[r] \in {"tryNext", "addNext", "launchNext"}
                    => dl_offset[r] + 1 \in Segs

\* Dropping a reference keeps the nodes well typed.
LEMMA UnrefType ==
  ASSUME NEW nodes \in [AdIds -> AdNode], NEW a
  PROVE  ActiveDownload_unref(nodes, a) \in [AdIds -> AdNode]
<1>1. FreeAd \in AdNode
  BY DEF FreeAd, AdNode
<1>2. ASSUME a \in AdIds
      PROVE [nodes[a] EXCEPT !.refcount = nodes[a].refcount - 1] \in AdNode
  <2>1. nodes[a] \in AdNode
    BY <1>2
  <2>2. nodes[a].refcount - 1 \in Int
    BY <2>1 DEF AdNode
  <2> QED
    BY <2>1, <2>2 DEF AdNode
<1> QED
  BY <1>1, <1>2 DEF ActiveDownload_unref

\* Taking a reference keeps the nodes well typed.
LEMMA RefType ==
  ASSUME NEW nodes \in [AdIds -> AdNode], NEW a
  PROVE  ActiveDownload_ref(nodes, a) \in [AdIds -> AdNode]
<1>1. ASSUME a \in AdIds
      PROVE [nodes[a] EXCEPT !.refcount = nodes[a].refcount + 1] \in AdNode
  BY <1>1 DEF AdNode
<1> QED
  BY <1>1 DEF ActiveDownload_ref

\* So does marking a node unlinked.
LEMMA UnlinkedType ==
  ASSUME NEW nodes \in [AdIds -> AdNode], NEW a
  PROVE  [nodes EXCEPT ![a].unlinked = TRUE] \in [AdIds -> AdNode]
BY DEF AdNode

\* So does clearing ad->ts.
LEMMA UnpublishedType ==
  ASSUME NEW node \in AdNode
  PROVE  [node EXCEPT !.ts = None] \in AdNode
BY DEF AdNode

\* ActiveDownload_find returns nodes.
LEMMA FindType == ListOK => \A s : ActiveDownload_find(s) \subseteq AdIds
BY DEF ListOK, ActiveDownload_find

\* The values that Init and resets use are in range.
LEMMA FirstValues ==
  /\ NumBgWorkers \in Nat /\ 0 \in Segs
  /\ 1 \in 1 .. Chunks /\ 0 \in 0 .. Chunks
BY CacheAssumption, FS_CardinalityType DEF CacheAssumption, Segs, NumBgWorkers

\* A node put in the list is well typed.
LEMMA AddType ==
  ASSUME ListOK, NEW a \in AdIds, NEW s \in Segs, ActiveDownload_add(a, s)
  PROVE  ad' \in [AdIds -> AdNode] /\ active_dls' \in SUBSET AdIds
<1>1. [offset |-> s, ts |-> None, refcount |-> 1, unlinked |-> FALSE]
        \in AdNode
  BY DEF AdNode
<1> QED
  BY <1>1 DEF ListOK, ActiveDownload_add

\* Leaving the wait keeps the list and orig_ad well typed.
LEMMA LeaveWaitType ==
  ASSUME ListOK, LocalsOK, NEW r \in Readers, LeaveWait(r)
  PROVE  /\ waiters' \in Int /\ ad' \in [AdIds -> AdNode]
         /\ orig_ad' \in [Readers -> AdIds \cup {None}]
BY UnrefType DEF ListOK, LocalsOK, LeaveWait

\* Untracking a download keeps the list well typed.
LEMMA RemoveType ==
  ASSUME ListOK, NEW s, ActiveDownload_remove(s)
  PROVE  ListOK'
<1>1. /\ waiters' \in Int
      /\ active_dls' \in SUBSET AdIds /\ asleep' \in SUBSET Readers
  <2>1. CASE ActiveDownload_find(s) = {}
    BY <2>1 DEF ListOK, ActiveDownload_remove
  <2>2. ASSUME NEW a, active_dls' = active_dls \ {a}, Broadcast(a)
        PROVE  active_dls' \in SUBSET AdIds /\ asleep' \in SUBSET Readers
    BY <2>2 DEF ListOK, Broadcast
  <2>3. waiters' \in Int
    BY DEF ListOK, ActiveDownload_remove
  <2> QED
    BY <2>1, <2>2, <2>3 DEF ActiveDownload_remove
<1>2. ad' \in [AdIds -> AdNode]
  <2>1. CASE ActiveDownload_find(s) = {}
    BY <2>1 DEF ListOK, ActiveDownload_remove
  <2>2. ASSUME NEW a,
               ad' = ActiveDownload_unref([ad EXCEPT ![a].unlinked = TRUE], a)
        PROVE  ad' \in [AdIds -> AdNode]
    BY <2>2, UnrefType, UnlinkedType DEF ListOK
  <2> QED
    BY <2>1, <2>2 DEF ActiveDownload_remove
<1> QED
  BY <1>1, <1>2 DEF ListOK

\* Link_download_finish_transfer keeps nodes and transfers well typed.
LEMMA FinishType ==
  ASSUME ListOK, NetOK, NEW t \in Threads, Link_download_finish_transfer(t)
  PROVE  ad' \in [AdIds -> AdNode] /\ ts' \in [Threads -> Transfer]
<1>1. NoTransfer \in Transfer
  BY FirstValues DEF NoTransfer, Transfer
<1>2. [a \in AdIds |->
         IF a \in ActiveDownload_find(dl_offset[t]) /\ ad[a].ts = t
         THEN [ad[a] EXCEPT !.ts = None] ELSE ad[a]] \in [AdIds -> AdNode]
  BY UnpublishedType DEF ListOK
<1> QED
  BY <1>1, <1>2, UnrefType DEF Link_download_finish_transfer, NetOK

\* Creating a background thread keeps the program counters well typed.
LEMMA LauncherType ==
  ASSUME PcOK, ListOK, NEW r \in Readers, NEW w \in Workers,
         NEW label \in ReaderPcs,
         Cache_bgdl_launcher(r, w, label)
  PROVE  PcOK' /\ waiters' \in Int
<1>1. "attempt" \in WorkerPcs /\ r # w
  BY CacheAssumption DEF WorkerPcs, CacheAssumption
<1>2. pc' \in [Threads -> ReaderPcs \cup WorkerPcs]
  BY <1>1 DEF PcOK, Cache_bgdl_launcher
<1>3. \A x \in Readers : pc'[x] \in ReaderPcs
  BY <1>1, CacheAssumption DEF PcOK, Cache_bgdl_launcher, Threads,
      CacheAssumption
<1>4. \A x \in Workers : pc'[x] \in WorkerPcs
  BY <1>1, CacheAssumption DEF PcOK, Cache_bgdl_launcher, Threads,
      CacheAssumption
<1>5. waiters' \in Int
  BY DEF Cache_bgdl_launcher, ListOK
<1> QED
  BY <1>2, <1>3, <1>4, <1>5 DEF PcOK

\* An answer is one of the results a read may have.
LEMMA AnswerType ==
  ASSUME LocalsOK, NEW r \in Readers,
         NEW bytes \in {"none", "file", "junk", "unchecked", "EIO", "ENOENT"},
         Answer(r, bytes)
  PROVE  send' \in [Readers -> {"none", "file", "junk", "unchecked", "EIO",
                                "ENOENT"}]
BY DEF LocalsOK, Answer

\* Returning from Cache_read_segment resets the locals to typed values.
LEMMA ReturnType ==
  ASSUME LocalsOK, PcOK, NEW r \in Readers, Return(r)
  PROVE  /\ PcOK' /\ dl_offset' \in [Threads -> Segs]
         /\ need' \in [Readers -> 1 .. Chunks]
BY FirstValues, CacheAssumption DEF LocalsOK, PcOK, Return, Goto, Threads,
    ReaderPcs, CacheAssumption

\* The head of Link_download's loop keeps nodes and transfers well typed.
LEMMA AttemptType ==
  ASSUME TypeOK, NEW t \in Threads, NEW reply \in Replies, Attempt(t, reply)
  PROVE  ListOK' /\ NetOK'
<1> USE DEF TypeOK
<1> PICK a \in ActiveDownload_find(dl_offset[t]) :
       /\ ad' = ActiveDownload_ref([ad EXCEPT ![a].ts = t], a)
       /\ ts' = [ts EXCEPT ![t] = [ad |-> a, size |-> 0, reply |-> reply]]
       /\ Broadcast(a)
  BY DEF Attempt
<1>1. a \in AdIds
  BY FindType
<1>2. [ad EXCEPT ![a].ts = t] \in [AdIds -> AdNode]
  BY <1>1 DEF ListOK, AdNode
<1>3. ListOK'
  BY <1>2, RefType DEF ListOK, Attempt, Broadcast
<1>4. [ad |-> a, size |-> 0, reply |-> reply] \in Transfer
  BY <1>1, FirstValues DEF Transfer
<1> QED
  BY <1>3, <1>4 DEF NetOK, Attempt, net

\* A body has some length.
LEMMA BodyType == \A reply : Body(reply) \in Nat
BY CacheAssumption DEF CacheAssumption, Body

\* A write callback makes a transfer one chunk longer, with no regard to the
\* range asked for.
LEMMA ChunkType ==
  ASSUME TypeOK, NEW t \in Threads, ReceiveChunk(t)
  PROVE  ListOK' /\ NetOK'
<1> USE DEF TypeOK
<1>1. ListOK'
  BY DEF ListOK, ReceiveChunk, Broadcast
<1>2. ts[t].size + 1 \in Nat
  BY DEF NetOK, Transfer
<1>3. [ts[t] EXCEPT !.size = ts[t].size + 1] \in Transfer
  BY <1>2 DEF NetOK, Transfer
<1> QED
  BY <1>1, <1>3 DEF NetOK, ReceiveChunk

\* The initial state is well typed.
LEMMA TypeInit == Init => TypeOK
<1> SUFFICES ASSUME Init PROVE TypeOK
  OBVIOUS
<1>2. FreeAd \in AdNode /\ NoTransfer \in Transfer
  BY FirstValues DEF FreeAd, AdNode, NoTransfer, Transfer
<1>3. HandlesOK
  <2>1. shutting_down \in BOOLEAN
    BY Zenon DEF Init
  <2>2. cache_opened \in Int /\ slots \in [Readers -> Int] /\ bgt_sem \in Int
    BY FirstValues DEF Init
  <2> QED
    BY <2>1, <2>2, Zenon DEF Init, HandlesOK
<1>4. ListOK
  BY <1>2 DEF Init, ListOK
<1>5. FilesOK
  BY DEF Init, FilesOK
<1>6. PcOK
  BY CacheAssumption
  DEF Init, CacheAssumption, Threads, PcOK, ReaderPcs, WorkerPcs
<1>7. LocalsOK
  BY FirstValues DEF Init, LocalsOK
<1>8. NetOK
  BY <1>2 DEF Init, NetOK
<1> QED
  BY <1>3, <1>4, <1>5, <1>6, <1>7, <1>8 DEF TypeOK

\* A part of the type invariant holds on while its variables do not change.
LEMMA TypeFrame ==
  TypeOK => /\ UNCHANGED <<handles, w_lock, bgt_sem>> => HandlesOK'
            /\ UNCHANGED list => ListOK'
            /\ UNCHANGED files => FilesOK'
            /\ UNCHANGED pc => PcOK'
            /\ UNCHANGED locals => LocalsOK'
            /\ UNCHANGED net => NetOK'
BY DEF TypeOK, HandlesOK, ListOK, FilesOK, PcOK, LocalsOK, NetOK, handles,
    list,
       files, locals, net

\* Every step keeps the type invariant, given that a prefetch in progress is
\* of a segment of the file: TypeOK alone is not inductive.
LEMMA TypeStep == ASSUME TypeOK, NextInRange, [Next]_vars PROVE TypeOK'
<1> USE DEF TypeOK, Goto, Answer
<1>1. ASSUME NEW r \in Readers, Cache_open(r) PROVE TypeOK'
  <2>1. HandlesOK'
    <3>1. shutting_down' \in BOOLEAN
      BY <1>1, Zenon DEF Cache_open, HandlesOK
    <3>2. /\ cache_opened' \in Int /\ bgt_sem' \in Int
          /\ UNCHANGED <<cf_lock, slots, w_lock>>
      BY <1>1, FirstValues DEF Cache_open, HandlesOK
    <3> QED
      BY <3>1, <3>2, Zenon DEF HandlesOK
  <2>2. ListOK'
    BY <1>1 DEF Cache_open, ListOK
  <2>3. FilesOK'
    BY <1>1 DEF Cache_open, FilesOK
  <2>4. PcOK'
    BY <1>1, CacheAssumption DEF Cache_open, CacheAssumption, PcOK, Threads,
        ReaderPcs, WorkerPcs
  <2> QED
    BY <1>1, <2>1, <2>2, <2>3, <2>4, TypeFrame DEF Cache_open
<1>2. ASSUME NEW r \in Readers, StartRead(r) PROVE TypeOK'
  <2>1. PcOK'
    BY <1>2, CacheAssumption DEF StartRead, CacheAssumption, PcOK, Threads,
        ReaderPcs, WorkerPcs
  <2>2. LocalsOK'
    BY <1>2 DEF StartRead, LocalsOK, Threads
  <2> QED
    BY <1>2, <2>1, <2>2, TypeFrame DEF StartRead
<1>3. ASSUME NEW r \in Readers, ReadCached(r) PROVE TypeOK'
  <2>1. PcOK'
    BY <1>3, CacheAssumption DEF ReadCached, CacheAssumption, PcOK, Threads,
        ReaderPcs, WorkerPcs
  <2>2. LocalsOK'
    BY <1>3 DEF ReadCached, Data_read, LocalsOK
  <2> QED
    BY <1>3, <2>1, <2>2, TypeFrame DEF ReadCached
<1>4. ASSUME NEW r \in Readers, MissCached(r) PROVE TypeOK'
  <2>1. HandlesOK'
    BY <1>4 DEF MissCached, HandlesOK, handles, Threads
  <2>2. PcOK'
    BY <1>4, CacheAssumption DEF MissCached, CacheAssumption, PcOK, Threads,
        ReaderPcs, WorkerPcs
  <2> QED
    BY <1>4, <2>1, <2>2, TypeFrame DEF MissCached
<1>5. ASSUME NEW r \in Readers, JoinDownload(r) PROVE TypeOK'
  <2>1. HandlesOK'
    BY <1>5 DEF JoinDownload, HandlesOK, handles
  <2>2. ListOK'
    <3>1. ASSUME NEW a PROVE ActiveDownload_ref(ad, a) \in [AdIds -> AdNode]
      BY RefType DEF ListOK
    <3> QED
      BY <3>1, <1>5 DEF ListOK, JoinDownload
  <2>3. PcOK'
    BY <1>5, CacheAssumption DEF JoinDownload, CacheAssumption, PcOK, Threads,
        ReaderPcs, WorkerPcs
  <2>4. LocalsOK'
    BY <1>5, FindType DEF JoinDownload, LocalsOK, CopiedBytes
  <2> QED
    BY <1>5, <2>1, <2>2, <2>3, <2>4, TypeFrame DEF JoinDownload
<1>6. ASSUME NEW r \in Readers, EarlyReturn(r) PROVE TypeOK'
  <2>1. ListOK'
    BY <1>6, LeaveWaitType DEF EarlyReturn, ListOK
  <2>2. PcOK'
    BY <1>6, CacheAssumption DEF EarlyReturn, CacheAssumption, PcOK, Threads,
        ReaderPcs, WorkerPcs
  <2>3. LocalsOK'
    BY <1>6, LeaveWaitType DEF EarlyReturn, LocalsOK, CopiedBytes
  <2> QED
    BY <1>6, <2>1, <2>2, <2>3, TypeFrame DEF EarlyReturn
<1>7. ASSUME NEW r \in Readers, SleepAgain(r) PROVE TypeOK'
  <2>1. ListOK'
    BY <1>7 DEF SleepAgain, ListOK
  <2> QED
    BY <1>7, <2>1, TypeFrame DEF SleepAgain
<1>8. ASSUME NEW r \in Readers, DownloadEnded(r) PROVE TypeOK'
  <2>1. ListOK'
    BY <1>8, LeaveWaitType DEF DownloadEnded, ListOK
  <2>2. PcOK'
    BY <1>8, ReturnType, CacheAssumption
    DEF DownloadEnded, CacheAssumption, PcOK, Threads, ReaderPcs, WorkerPcs
  <2>3. LocalsOK'
    <3>1. orig_ad' \in [Readers -> AdIds \cup {None}]
      BY <1>8, LeaveWaitType DEF DownloadEnded
    <3> QED
      BY <1>8, <3>1, ReturnType DEF DownloadEnded, LocalsOK
  <2> QED
    BY <1>8, <2>1, <2>2, <2>3, TypeFrame DEF DownloadEnded
<1>9. ASSUME NEW r \in Readers, NoDownload(r) PROVE TypeOK'
  <2>1. PcOK'
    BY <1>9, CacheAssumption DEF NoDownload, CacheAssumption, PcOK, Threads,
        ReaderPcs, WorkerPcs
  <2> QED
    BY <1>9, <2>1, TypeFrame DEF NoDownload
<1>10. ASSUME NEW r \in Readers, TrySlot(r) PROVE TypeOK'
  <2>1. HandlesOK'
    BY <1>10 DEF TrySlot, HandlesOK, handles
  <2>2. PcOK'
    BY <1>10, CacheAssumption DEF TrySlot, CacheAssumption, PcOK, Threads,
        ReaderPcs, WorkerPcs
  <2> QED
    BY <1>10, <2>1, <2>2, TypeFrame DEF TrySlot
<1>11. ASSUME NEW r \in Readers, AddBg(r) PROVE TypeOK'
  <2>1. HandlesOK'
    BY <1>11 DEF AddBg, HandlesOK, handles
  <2>2. ListOK'
    BY <1>11, AddType DEF AddBg, ListOK, LocalsOK, Threads, Missing
  <2>3. PcOK'
    BY <1>11, CacheAssumption DEF AddBg, CacheAssumption, PcOK, Threads,
        ReaderPcs, WorkerPcs
  <2> QED
    BY <1>11, <2>1, <2>2, <2>3, TypeFrame DEF AddBg
<1>12. ASSUME NEW r \in Readers, Launch(r) PROVE TypeOK'
  <2>1. HandlesOK'
    BY <1>12 DEF Launch, HandlesOK, handles
  <2>2. ListOK'
    BY <1>12, CacheAssumption, LauncherType DEF Launch, ListOK, ReaderPcs
  <2>3. PcOK'
    BY <1>12, CacheAssumption, LauncherType DEF Launch, ListOK, ReaderPcs
  <2>4. LocalsOK'
    BY <1>12, CacheAssumption DEF Launch, LocalsOK, Threads
  <2> QED
    BY <1>12, <2>1, <2>2, <2>3, <2>4, TypeFrame DEF Launch
<1>13. ASSUME NEW r \in Readers, SyncRetry(r) PROVE TypeOK'
  <2>1. HandlesOK'
    BY <1>13 DEF SyncRetry, HandlesOK, handles
  <2>2. PcOK'
    BY <1>13, CacheAssumption DEF SyncRetry, CacheAssumption, PcOK, Threads,
        ReaderPcs, WorkerPcs
  <2> QED
    BY <1>13, <2>1, <2>2, TypeFrame DEF SyncRetry
<1>14. ASSUME NEW r \in Readers, SyncStart(r) PROVE TypeOK'
  <2>1. HandlesOK'
    BY <1>14 DEF SyncStart, HandlesOK, handles
  <2>2. ListOK'
    BY <1>14, AddType DEF SyncStart, ListOK, LocalsOK, Threads, Missing
  <2>3. PcOK'
    BY <1>14, CacheAssumption DEF SyncStart, CacheAssumption, PcOK, Threads,
        ReaderPcs, WorkerPcs
  <2> QED
    BY <1>14, <2>1, <2>2, <2>3, TypeFrame DEF SyncStart
<1>15. ASSUME NEW r \in Readers, SyncFailed(r) PROVE TypeOK'
  <2>1. ListOK'
    BY <1>15, RemoveType DEF SyncFailed
  <2>2. PcOK'
    BY <1>15, ReturnType DEF SyncFailed
  <2>3. LocalsOK'
    BY <1>15, ReturnType DEF SyncFailed, LocalsOK
  <2>4. NetOK'
    BY <1>15 DEF SyncFailed, NetOK, Threads
  <2> QED
    BY <1>15, <2>1, <2>2, <2>3, <2>4, TypeFrame DEF SyncFailed
<1>16. ASSUME NEW r \in Readers, SyncUntrack(r) PROVE TypeOK'
  <2>1. HandlesOK'
    BY <1>16 DEF SyncUntrack, HandlesOK, handles
  <2>2. ListOK'
    BY <1>16, RemoveType DEF SyncUntrack
  <2>3. PcOK'
    BY <1>16, CacheAssumption DEF SyncUntrack, CacheAssumption, PcOK, Threads,
        ReaderPcs, WorkerPcs
  <2>4. LocalsOK'
    <3>1. recv[r] \in {"none", "file", "junk", "ENOENT"}
      BY DEF NetOK, Threads
    <3> QED
      BY <1>16, <3>1 DEF SyncUntrack, LocalsOK
  <2>5. NetOK'
    BY <1>16 DEF SyncUntrack, NetOK, Threads
  <2> QED
    BY <1>16, <2>1, <2>2, <2>3, <2>4, <2>5, TypeFrame DEF SyncUntrack
<1>17. ASSUME NEW r \in Readers, PeekNext(r) PROVE TypeOK'
  <2>1. PcOK'
    BY <1>17, ReturnType, CacheAssumption DEF PeekNext, CacheAssumption, PcOK,
        Threads, ReaderPcs, WorkerPcs
  <2>2. LocalsOK'
    BY <1>17, ReturnType DEF PeekNext, LocalsOK
  <2> QED
    BY <1>17, <2>1, <2>2, TypeFrame DEF PeekNext
<1>18. ASSUME NEW r \in Readers, TryNextSlot(r) PROVE TypeOK'
  <2>1. HandlesOK'
    BY <1>18 DEF TryNextSlot, HandlesOK, handles
  <2>2. PcOK'
    BY <1>18, ReturnType, CacheAssumption DEF TryNextSlot, CacheAssumption,
        PcOK, Threads, ReaderPcs, WorkerPcs
  <2>3. LocalsOK'
    BY <1>18, ReturnType DEF TryNextSlot, LocalsOK
  <2> QED
    BY <1>18, <2>1, <2>2, <2>3, TypeFrame DEF TryNextSlot
<1>19. ASSUME NEW r \in Readers, AddNext(r) PROVE TypeOK'
  <2>1. HandlesOK'
    BY <1>19 DEF AddNext, HandlesOK, handles
  <2>2. ListOK'
    BY <1>19, AddType DEF AddNext, ListOK, LocalsOK, Threads, Missing
  <2>3. PcOK'
    BY <1>19, ReturnType, CacheAssumption DEF AddNext, CacheAssumption, PcOK,
        Threads, ReaderPcs, WorkerPcs
  <2>4. LocalsOK'
    BY <1>19, ReturnType DEF AddNext, LocalsOK
  <2> QED
    BY <1>19, <2>1, <2>2, <2>3, <2>4, TypeFrame DEF AddNext
<1>20. ASSUME NEW r \in Readers, LaunchNext(r) PROVE TypeOK'
  <2>1. ListOK'
    BY <1>20, CacheAssumption, LauncherType DEF LaunchNext, ListOK, ReaderPcs
  <2>2. PcOK'
    BY <1>20, CacheAssumption, LauncherType DEF LaunchNext, ListOK, ReaderPcs
  <2>3. LocalsOK'
    <3>1. dl_offset[r] + 1 \in Segs
      BY <1>20 DEF LaunchNext, NextInRange
    <3> QED
      BY <1>20, <3>1, FirstValues DEF LaunchNext, LocalsOK, Threads
  <2> QED
    BY <1>20, <2>1, <2>2, <2>3, TypeFrame DEF LaunchNext
<1>21. ASSUME NEW r \in Readers, Cache_close(r) PROVE TypeOK'
  <2>1. HandlesOK'
    BY <1>21 DEF Cache_close, HandlesOK
  <2>2. PcOK'
    BY <1>21, CacheAssumption DEF Cache_close, CacheAssumption, PcOK, Threads,
        ReaderPcs, WorkerPcs
  <2>3. LocalsOK'
    BY <1>21 DEF Cache_close, LocalsOK
  <2> QED
    BY <1>21, <2>1, <2>2, <2>3, TypeFrame DEF Cache_close
<1>22. ASSUME NEW r \in Readers, CollectSlot(r) PROVE TypeOK'
  <2>1. HandlesOK'
    BY <1>22 DEF CollectSlot, HandlesOK
  <2> QED
    BY <1>22, <2>1, TypeFrame DEF CollectSlot
<1>23. ASSUME NEW r \in Readers, SaveAndShutDown(r) PROVE TypeOK'
  <2>1. HandlesOK'
    BY <1>23 DEF SaveAndShutDown, HandlesOK
  <2>2. ListOK'
    <3>1. ASSUME NEW a \in AdIds
          PROVE  ActiveDownload_unref([ad EXCEPT ![a].unlinked = TRUE], a)[a]
                   \in AdNode
      <4>1. [ad EXCEPT ![a].unlinked = TRUE] \in [AdIds -> AdNode]
        BY UnlinkedType DEF ListOK
      <4> QED
        BY <3>1, <4>1, UnrefType
    <3> QED
      BY <3>1, <1>23 DEF ListOK, SaveAndShutDown
  <2>3. FilesOK'
    BY <1>23 DEF SaveAndShutDown, FilesOK
  <2>4. PcOK'
    BY <1>23, CacheAssumption DEF SaveAndShutDown, CacheAssumption, PcOK,
        Threads, ReaderPcs, WorkerPcs
  <2> QED
    BY <1>23, <2>1, <2>2, <2>3, <2>4, TypeFrame DEF SaveAndShutDown
<1>24. ASSUME NEW r \in Readers, FreeCache(r) PROVE TypeOK'
  <2>1. HandlesOK'
    BY <1>24 DEF FreeCache, HandlesOK
  <2>2. PcOK'
    BY <1>24, CacheAssumption DEF FreeCache, CacheAssumption, PcOK, Threads,
        ReaderPcs, WorkerPcs
  <2> QED
    BY <1>24, <2>1, <2>2, TypeFrame DEF FreeCache
<1>25. ASSUME NEW w \in Workers, BgUntrack(w) PROVE TypeOK'
  <2>1. ListOK'
    BY <1>25, RemoveType DEF BgUntrack
  <2>2. PcOK'
    BY <1>25, CacheAssumption DEF BgUntrack, CacheAssumption, PcOK, Threads,
        ReaderPcs, WorkerPcs
  <2>3. NetOK'
    BY <1>25 DEF BgUntrack, NetOK, Threads
  <2> QED
    BY <1>25, <2>1, <2>2, <2>3, TypeFrame DEF BgUntrack
<1>26. ASSUME NEW w \in Workers, BgPost(w) PROVE TypeOK'
  <2>1. HandlesOK'
    BY <1>26 DEF BgPost, HandlesOK, handles
  <2>2. PcOK'
    BY <1>26, CacheAssumption DEF BgPost, CacheAssumption, PcOK, Threads,
        ReaderPcs, WorkerPcs
  <2>3. LocalsOK'
    BY <1>26, FirstValues DEF BgPost, LocalsOK, Threads
  <2> QED
    BY <1>26, <2>1, <2>2, <2>3, TypeFrame DEF BgPost
<1>27. ASSUME NEW t \in Threads, ReceiveChunk(t) PROVE TypeOK'
  <2>1. ListOK'
    BY <1>27, ChunkType DEF ReceiveChunk
  <2>2. NetOK'
    BY <1>27, ChunkType DEF ReceiveChunk
  <2> QED
    BY <1>27, <2>1, <2>2, TypeFrame DEF ReceiveChunk
<1>28. ASSUME NEW t \in Threads, TransferOk(t) PROVE TypeOK'
  <2>1. ListOK'
    BY <1>28, FinishType DEF TransferOk, ListOK
  <2>2. PcOK'
    BY <1>28, CacheAssumption DEF TransferOk, CacheAssumption, PcOK, Threads,
        ReaderPcs, WorkerPcs
  <2>3. NetOK'
    BY <1>28, FinishType DEF TransferOk, NetOK
  <2> QED
    BY <1>28, <2>1, <2>2, <2>3, TypeFrame DEF TransferOk
<1>29. ASSUME NEW t \in Threads, TransferGone(t) PROVE TypeOK'
  <2>1. ListOK'
    BY <1>29, FinishType DEF TransferGone, ListOK
  <2>2. PcOK'
    BY <1>29, CacheAssumption DEF TransferGone, CacheAssumption, PcOK,
        Threads, ReaderPcs, WorkerPcs
  <2>3. NetOK'
    BY <1>29, FinishType DEF TransferGone, NetOK
  <2> QED
    BY <1>29, <2>1, <2>2, <2>3, TypeFrame DEF TransferGone
<1>30. ASSUME NEW t \in Threads, TransferRetry(t) PROVE TypeOK'
  <2>1. ListOK'
    BY <1>30, FinishType DEF TransferRetry, ListOK
  <2>2. PcOK'
    BY <1>30, CacheAssumption DEF TransferRetry, CacheAssumption, PcOK,
        Threads, ReaderPcs, WorkerPcs
  <2>3. NetOK'
    BY <1>30, FinishType DEF TransferRetry, NetOK
  <2> QED
    BY <1>30, <2>1, <2>2, <2>3, TypeFrame DEF TransferRetry
<1>31. ASSUME NEW t \in Threads, Store(t) PROVE TypeOK'
  <2>1. HandlesOK'
    BY <1>31 DEF Store, HandlesOK, handles, Threads
  <2>2. FilesOK'
    BY <1>31 DEF Store, FilesOK, LocalsOK, StoreSegment
  <2>3. PcOK'
    BY <1>31, CacheAssumption DEF Store, CacheAssumption, PcOK, Threads,
        ReaderPcs, WorkerPcs
  <2> QED
    BY <1>31, <2>1, <2>2, <2>3, TypeFrame DEF Store
<1>32. ASSUME NEW t \in Threads, NEW reply \in Replies, Attempt(t, reply)
       PROVE  TypeOK'
  <2>1. PcOK'
    BY <1>32 DEF Attempt, PcOK, ReaderPcs, WorkerPcs
  <2> QED
    BY <1>32, <2>1, AttemptType, TypeFrame DEF Attempt
<1>33. ASSUME UNCHANGED vars PROVE TypeOK'
  BY <1>33, TypeFrame DEF vars, handles, list, files, locals, net
<1> QED
  BY <1>1, <1>2, <1>3, <1>4, <1>5, <1>6, <1>7, <1>8, <1>9, <1>10, <1>11,
      <1>12, <1>13, <1>14, <1>15, <1>16, <1>17, <1>18, <1>19, <1>20, <1>21,
      <1>22, <1>23, <1>24, <1>25, <1>26, <1>27, <1>28, <1>29, <1>30, <1>31,
      <1>32, <1>33
  DEF Next, Reader, ReadStep, CloseStep, Bgdl, Download

-----------------------------------------------------------------------------
(* What w_lock protects. *)


UnderWLock == {"findAd", "trySlot", "addBg", "launch", "syncDl", "untrack"}

WLockHeld == /\ w_lock \in Readers \cup {None}
             /\ \A r \in Readers : w_lock = r <=> pc[r] \in UnderWLock

MissHolds == \A r \in Readers : pc[r] \in UnderWLock \ {"untrack"}
                                  => dl_offset[r] \notin seg

MetaBehind == meta \subseteq seg

LockInv == TypeOK /\ NextInRange /\ WLockHeld /\ MissHolds /\ MetaBehind

\* The invariant holds at the start.
LEMMA LockInit == Init => LockInv
BY TypeInit, CacheAssumption
DEF Init, LockInv, NextInRange, WLockHeld, MissHolds, MetaBehind, UnderWLock,
    CacheAssumption, Threads

\* A prefetch in progress stays one of a segment of the file.
LEMMA NextInRangeStep == ASSUME LockInv, [Next]_vars PROVE NextInRange'
<1> USE CacheAssumption
    DEF CacheAssumption, LockInv, TypeOK, NextInRange, locals, Goto, Return,
        Threads, PcOK, LocalsOK, ReaderPcs, WorkerPcs
<1>1. ASSUME NEW r \in Readers, Cache_open(r) PROVE NextInRange'
  BY <1>1 DEF Cache_open
<1>2. ASSUME NEW r \in Readers, StartRead(r) PROVE NextInRange'
  BY <1>2 DEF StartRead
<1>3. ASSUME NEW r \in Readers, ReadCached(r) PROVE NextInRange'
  BY <1>3 DEF ReadCached
<1>4. ASSUME NEW r \in Readers, MissCached(r) PROVE NextInRange'
  BY <1>4 DEF MissCached
<1>5. ASSUME NEW r \in Readers, JoinDownload(r) PROVE NextInRange'
  BY <1>5 DEF JoinDownload
<1>6. ASSUME NEW r \in Readers, EarlyReturn(r) PROVE NextInRange'
  BY <1>6 DEF EarlyReturn
<1>7. ASSUME NEW r \in Readers, SleepAgain(r) PROVE NextInRange'
  BY <1>7 DEF SleepAgain
<1>8. ASSUME NEW r \in Readers, DownloadEnded(r) PROVE NextInRange'
  BY <1>8 DEF DownloadEnded
<1>9. ASSUME NEW r \in Readers, NoDownload(r) PROVE NextInRange'
  BY <1>9 DEF NoDownload
<1>10. ASSUME NEW r \in Readers, TrySlot(r) PROVE NextInRange'
  BY <1>10 DEF TrySlot
<1>11. ASSUME NEW r \in Readers, AddBg(r) PROVE NextInRange'
  BY <1>11 DEF AddBg
<1>12. ASSUME NEW r \in Readers, Launch(r) PROVE NextInRange'
  BY <1>12 DEF Launch, Cache_bgdl_launcher
<1>13. ASSUME NEW r \in Readers, SyncRetry(r) PROVE NextInRange'
  BY <1>13 DEF SyncRetry
<1>14. ASSUME NEW r \in Readers, SyncStart(r) PROVE NextInRange'
  BY <1>14 DEF SyncStart
<1>15. ASSUME NEW r \in Readers, SyncFailed(r) PROVE NextInRange'
  BY <1>15 DEF SyncFailed
<1>16. ASSUME NEW r \in Readers, SyncUntrack(r) PROVE NextInRange'
  BY <1>16 DEF SyncUntrack
<1>17. ASSUME NEW r \in Readers, PeekNext(r) PROVE NextInRange'
  BY <1>17 DEF PeekNext, Missing
<1>18. ASSUME NEW r \in Readers, TryNextSlot(r) PROVE NextInRange'
  BY <1>18 DEF TryNextSlot
<1>19. ASSUME NEW r \in Readers, AddNext(r) PROVE NextInRange'
  BY <1>19 DEF AddNext
<1>20. ASSUME NEW r \in Readers, LaunchNext(r) PROVE NextInRange'
  BY <1>20 DEF LaunchNext, Cache_bgdl_launcher
<1>21. ASSUME NEW r \in Readers, Cache_close(r) PROVE NextInRange'
  BY <1>21 DEF Cache_close
<1>22. ASSUME NEW r \in Readers, CollectSlot(r) PROVE NextInRange'
  BY <1>22 DEF CollectSlot
<1>23. ASSUME NEW r \in Readers, SaveAndShutDown(r) PROVE NextInRange'
  BY <1>23 DEF SaveAndShutDown
<1>24. ASSUME NEW r \in Readers, FreeCache(r) PROVE NextInRange'
  BY <1>24 DEF FreeCache
<1>25. ASSUME NEW w \in Workers, BgUntrack(w) PROVE NextInRange'
  BY <1>25 DEF BgUntrack
<1>26. ASSUME NEW w \in Workers, BgPost(w) PROVE NextInRange'
  BY <1>26 DEF BgPost
<1>27. ASSUME NEW t \in Threads, ReceiveChunk(t) PROVE NextInRange'
  BY <1>27 DEF ReceiveChunk
<1>28. ASSUME NEW t \in Threads, TransferOk(t) PROVE NextInRange'
  BY <1>28 DEF TransferOk
<1>29. ASSUME NEW t \in Threads, TransferGone(t) PROVE NextInRange'
  BY <1>29 DEF TransferGone
<1>30. ASSUME NEW t \in Threads, TransferRetry(t) PROVE NextInRange'
  BY <1>30 DEF TransferRetry
<1>31. ASSUME NEW t \in Threads, Store(t) PROVE NextInRange'
  BY <1>31 DEF Store
<1>32. ASSUME NEW t \in Threads, NEW reply \in Replies, Attempt(t, reply)
       PROVE  NextInRange'
  BY <1>32 DEF Attempt
<1>33. ASSUME UNCHANGED vars PROVE NextInRange'
  BY <1>33 DEF vars
<1> QED
  BY <1>1, <1>2, <1>3, <1>4, <1>5, <1>6, <1>7, <1>8, <1>9, <1>10, <1>11,
      <1>12, <1>13, <1>14, <1>15, <1>16, <1>17, <1>18, <1>19, <1>20, <1>21,
      <1>22, <1>23, <1>24, <1>25, <1>26, <1>27, <1>28, <1>29, <1>30, <1>31,
      <1>32, <1>33
  DEF Next, Reader, ReadStep, CloseStep, Bgdl, Download

\* w_lock is held exactly where the program counter says.
LEMMA WLockHeldStep == ASSUME LockInv, [Next]_vars PROVE WLockHeld'
<1> USE CacheAssumption
    DEF CacheAssumption, LockInv, TypeOK, WLockHeld, UnderWLock, Goto, Return,
        Threads, PcOK, ReaderPcs, WorkerPcs
<1>1. ASSUME NEW r \in Readers, Cache_open(r) PROVE WLockHeld'
  BY <1>1 DEF Cache_open
<1>2. ASSUME NEW r \in Readers, StartRead(r) PROVE WLockHeld'
  BY <1>2 DEF StartRead
<1>3. ASSUME NEW r \in Readers, ReadCached(r) PROVE WLockHeld'
  BY <1>3 DEF ReadCached
<1>4. ASSUME NEW r \in Readers, MissCached(r) PROVE WLockHeld'
  BY <1>4 DEF MissCached
<1>5. ASSUME NEW r \in Readers, JoinDownload(r) PROVE WLockHeld'
  BY <1>5 DEF JoinDownload
<1>6. ASSUME NEW r \in Readers, EarlyReturn(r) PROVE WLockHeld'
  BY <1>6 DEF EarlyReturn, Awake
<1>7. ASSUME NEW r \in Readers, SleepAgain(r) PROVE WLockHeld'
  BY <1>7 DEF SleepAgain
<1>8. ASSUME NEW r \in Readers, DownloadEnded(r) PROVE WLockHeld'
  BY <1>8 DEF DownloadEnded, Awake
<1>9. ASSUME NEW r \in Readers, NoDownload(r) PROVE WLockHeld'
  BY <1>9 DEF NoDownload
<1>10. ASSUME NEW r \in Readers, TrySlot(r) PROVE WLockHeld'
  BY <1>10 DEF TrySlot
<1>11. ASSUME NEW r \in Readers, AddBg(r) PROVE WLockHeld'
  BY <1>11 DEF AddBg
<1>12. ASSUME NEW r \in Readers, Launch(r) PROVE WLockHeld'
  BY <1>12 DEF Launch, Cache_bgdl_launcher
<1>13. ASSUME NEW r \in Readers, SyncRetry(r) PROVE WLockHeld'
  BY <1>13 DEF SyncRetry
<1>14. ASSUME NEW r \in Readers, SyncStart(r) PROVE WLockHeld'
  BY <1>14 DEF SyncStart
<1>15. ASSUME NEW r \in Readers, SyncFailed(r) PROVE WLockHeld'
  BY <1>15 DEF SyncFailed
<1>16. ASSUME NEW r \in Readers, SyncUntrack(r) PROVE WLockHeld'
  BY <1>16 DEF SyncUntrack
<1>17. ASSUME NEW r \in Readers, PeekNext(r) PROVE WLockHeld'
  BY <1>17 DEF PeekNext
<1>18. ASSUME NEW r \in Readers, TryNextSlot(r) PROVE WLockHeld'
  BY <1>18 DEF TryNextSlot
<1>19. ASSUME NEW r \in Readers, AddNext(r) PROVE WLockHeld'
  BY <1>19 DEF AddNext
<1>20. ASSUME NEW r \in Readers, LaunchNext(r) PROVE WLockHeld'
  BY <1>20 DEF LaunchNext, Cache_bgdl_launcher
<1>21. ASSUME NEW r \in Readers, Cache_close(r) PROVE WLockHeld'
  BY <1>21 DEF Cache_close
<1>22. ASSUME NEW r \in Readers, CollectSlot(r) PROVE WLockHeld'
  BY <1>22 DEF CollectSlot
<1>23. ASSUME NEW r \in Readers, SaveAndShutDown(r) PROVE WLockHeld'
  BY <1>23 DEF SaveAndShutDown
<1>24. ASSUME NEW r \in Readers, FreeCache(r) PROVE WLockHeld'
  BY <1>24 DEF FreeCache
<1>25. ASSUME NEW w \in Workers, BgUntrack(w) PROVE WLockHeld'
  BY <1>25 DEF BgUntrack
<1>26. ASSUME NEW w \in Workers, BgPost(w) PROVE WLockHeld'
  BY <1>26 DEF BgPost
<1>27. ASSUME NEW t \in Threads, ReceiveChunk(t) PROVE WLockHeld'
  BY <1>27 DEF ReceiveChunk
<1>28. ASSUME NEW t \in Threads, TransferOk(t) PROVE WLockHeld'
  BY <1>28 DEF TransferOk
<1>29. ASSUME NEW t \in Threads, TransferGone(t) PROVE WLockHeld'
  BY <1>29 DEF TransferGone
<1>30. ASSUME NEW t \in Threads, TransferRetry(t) PROVE WLockHeld'
  BY <1>30 DEF TransferRetry
<1>31. ASSUME NEW t \in Threads, Store(t) PROVE WLockHeld'
  BY <1>31 DEF Store
<1>32. ASSUME NEW t \in Threads, NEW reply \in Replies, Attempt(t, reply)
       PROVE  WLockHeld'
  BY <1>32 DEF Attempt
<1>33. ASSUME UNCHANGED vars PROVE WLockHeld'
  BY <1>33 DEF vars
<1> QED
  BY <1>1, <1>2, <1>3, <1>4, <1>5, <1>6, <1>7, <1>8, <1>9, <1>10, <1>11,
      <1>12, <1>13, <1>14, <1>15, <1>16, <1>17, <1>18, <1>19, <1>20, <1>21,
      <1>22, <1>23, <1>24, <1>25, <1>26, <1>27, <1>28, <1>29, <1>30, <1>31,
      <1>32, <1>33
  DEF Next, Reader, ReadStep, CloseStep, Bgdl, Download

\* No segment is stored, and none comes back from the disk, while a reader
\* that found it missing holds w_lock.
LEMMA MissHoldsStep == ASSUME LockInv, [Next]_vars PROVE MissHolds'
<1> USE CacheAssumption
    DEF CacheAssumption, LockInv, TypeOK, MissHolds, WLockHeld, MetaBehind,
        UnderWLock, Goto, Return, Threads, PcOK, LocalsOK, ReaderPcs,
        WorkerPcs, locals, files
<1>1. ASSUME NEW r \in Readers, Cache_open(r) PROVE MissHolds'
  BY <1>1 DEF Cache_open
<1>2. ASSUME NEW r \in Readers, StartRead(r) PROVE MissHolds'
  BY <1>2 DEF StartRead
<1>3. ASSUME NEW r \in Readers, ReadCached(r) PROVE MissHolds'
  BY <1>3 DEF ReadCached
<1>4. ASSUME NEW r \in Readers, MissCached(r) PROVE MissHolds'
  BY <1>4 DEF MissCached, Seg_exist
<1>5. ASSUME NEW r \in Readers, JoinDownload(r) PROVE MissHolds'
  BY <1>5 DEF JoinDownload
<1>6. ASSUME NEW r \in Readers, EarlyReturn(r) PROVE MissHolds'
  BY <1>6 DEF EarlyReturn
<1>7. ASSUME NEW r \in Readers, SleepAgain(r) PROVE MissHolds'
  BY <1>7 DEF SleepAgain
<1>8. ASSUME NEW r \in Readers, DownloadEnded(r) PROVE MissHolds'
  BY <1>8 DEF DownloadEnded
<1>9. ASSUME NEW r \in Readers, NoDownload(r) PROVE MissHolds'
  BY <1>9 DEF NoDownload
<1>10. ASSUME NEW r \in Readers, TrySlot(r) PROVE MissHolds'
  BY <1>10 DEF TrySlot
<1>11. ASSUME NEW r \in Readers, AddBg(r) PROVE MissHolds'
  BY <1>11 DEF AddBg
<1>12. ASSUME NEW r \in Readers, Launch(r) PROVE MissHolds'
  BY <1>12 DEF Launch, Cache_bgdl_launcher
<1>13. ASSUME NEW r \in Readers, SyncRetry(r) PROVE MissHolds'
  BY <1>13 DEF SyncRetry
<1>14. ASSUME NEW r \in Readers, SyncStart(r) PROVE MissHolds'
  BY <1>14 DEF SyncStart
<1>15. ASSUME NEW r \in Readers, SyncFailed(r) PROVE MissHolds'
  BY <1>15 DEF SyncFailed
<1>16. ASSUME NEW r \in Readers, SyncUntrack(r) PROVE MissHolds'
  BY <1>16 DEF SyncUntrack
<1>17. ASSUME NEW r \in Readers, PeekNext(r) PROVE MissHolds'
  BY <1>17 DEF PeekNext
<1>18. ASSUME NEW r \in Readers, TryNextSlot(r) PROVE MissHolds'
  BY <1>18 DEF TryNextSlot
<1>19. ASSUME NEW r \in Readers, AddNext(r) PROVE MissHolds'
  BY <1>19 DEF AddNext
<1>20. ASSUME NEW r \in Readers, LaunchNext(r) PROVE MissHolds'
  BY <1>20 DEF LaunchNext, Cache_bgdl_launcher
<1>21. ASSUME NEW r \in Readers, Cache_close(r) PROVE MissHolds'
  BY <1>21 DEF Cache_close
<1>22. ASSUME NEW r \in Readers, CollectSlot(r) PROVE MissHolds'
  BY <1>22 DEF CollectSlot
<1>23. ASSUME NEW r \in Readers, SaveAndShutDown(r) PROVE MissHolds'
  BY <1>23 DEF SaveAndShutDown
<1>24. ASSUME NEW r \in Readers, FreeCache(r) PROVE MissHolds'
  BY <1>24 DEF FreeCache
<1>25. ASSUME NEW w \in Workers, BgUntrack(w) PROVE MissHolds'
  BY <1>25 DEF BgUntrack
<1>26. ASSUME NEW w \in Workers, BgPost(w) PROVE MissHolds'
  BY <1>26 DEF BgPost
<1>27. ASSUME NEW t \in Threads, ReceiveChunk(t) PROVE MissHolds'
  BY <1>27 DEF ReceiveChunk
<1>28. ASSUME NEW t \in Threads, TransferOk(t) PROVE MissHolds'
  BY <1>28 DEF TransferOk
<1>29. ASSUME NEW t \in Threads, TransferGone(t) PROVE MissHolds'
  BY <1>29 DEF TransferGone
<1>30. ASSUME NEW t \in Threads, TransferRetry(t) PROVE MissHolds'
  BY <1>30 DEF TransferRetry
<1>31. ASSUME NEW t \in Threads, Store(t) PROVE MissHolds'
  BY <1>31 DEF Store, StoreSegment
<1>32. ASSUME NEW t \in Threads, NEW reply \in Replies, Attempt(t, reply)
       PROVE  MissHolds'
  BY <1>32 DEF Attempt
<1>33. ASSUME UNCHANGED vars PROVE MissHolds'
  BY <1>33 DEF vars
<1> QED
  BY <1>1, <1>2, <1>3, <1>4, <1>5, <1>6, <1>7, <1>8, <1>9, <1>10, <1>11,
      <1>12, <1>13, <1>14, <1>15, <1>16, <1>17, <1>18, <1>19, <1>20, <1>21,
      <1>22, <1>23, <1>24, <1>25, <1>26, <1>27, <1>28, <1>29, <1>30, <1>31,
      <1>32, <1>33
  DEF Next, Reader, ReadStep, CloseStep, Bgdl, Download

\* Only the last closer writes the bitmap on disk, as it is in memory.
LEMMA MetaBehindStep == ASSUME LockInv, [Next]_vars PROVE MetaBehind'
<1> USE DEF LockInv, MetaBehind, files
<1>1. ASSUME NEW r \in Readers, Cache_open(r) PROVE MetaBehind'
  BY <1>1 DEF Cache_open
<1>2. ASSUME NEW r \in Readers, StartRead(r) PROVE MetaBehind'
  BY <1>2 DEF StartRead
<1>3. ASSUME NEW r \in Readers, ReadCached(r) PROVE MetaBehind'
  BY <1>3 DEF ReadCached
<1>4. ASSUME NEW r \in Readers, MissCached(r) PROVE MetaBehind'
  BY <1>4 DEF MissCached
<1>5. ASSUME NEW r \in Readers, JoinDownload(r) PROVE MetaBehind'
  BY <1>5 DEF JoinDownload
<1>6. ASSUME NEW r \in Readers, EarlyReturn(r) PROVE MetaBehind'
  BY <1>6 DEF EarlyReturn
<1>7. ASSUME NEW r \in Readers, SleepAgain(r) PROVE MetaBehind'
  BY <1>7 DEF SleepAgain
<1>8. ASSUME NEW r \in Readers, DownloadEnded(r) PROVE MetaBehind'
  BY <1>8 DEF DownloadEnded
<1>9. ASSUME NEW r \in Readers, NoDownload(r) PROVE MetaBehind'
  BY <1>9 DEF NoDownload
<1>10. ASSUME NEW r \in Readers, TrySlot(r) PROVE MetaBehind'
  BY <1>10 DEF TrySlot
<1>11. ASSUME NEW r \in Readers, AddBg(r) PROVE MetaBehind'
  BY <1>11 DEF AddBg
<1>12. ASSUME NEW r \in Readers, Launch(r) PROVE MetaBehind'
  BY <1>12 DEF Launch
<1>13. ASSUME NEW r \in Readers, SyncRetry(r) PROVE MetaBehind'
  BY <1>13 DEF SyncRetry
<1>14. ASSUME NEW r \in Readers, SyncStart(r) PROVE MetaBehind'
  BY <1>14 DEF SyncStart
<1>15. ASSUME NEW r \in Readers, SyncFailed(r) PROVE MetaBehind'
  BY <1>15 DEF SyncFailed
<1>16. ASSUME NEW r \in Readers, SyncUntrack(r) PROVE MetaBehind'
  BY <1>16 DEF SyncUntrack
<1>17. ASSUME NEW r \in Readers, PeekNext(r) PROVE MetaBehind'
  BY <1>17 DEF PeekNext
<1>18. ASSUME NEW r \in Readers, TryNextSlot(r) PROVE MetaBehind'
  BY <1>18 DEF TryNextSlot
<1>19. ASSUME NEW r \in Readers, AddNext(r) PROVE MetaBehind'
  BY <1>19 DEF AddNext
<1>20. ASSUME NEW r \in Readers, LaunchNext(r) PROVE MetaBehind'
  BY <1>20 DEF LaunchNext
<1>21. ASSUME NEW r \in Readers, Cache_close(r) PROVE MetaBehind'
  BY <1>21 DEF Cache_close
<1>22. ASSUME NEW r \in Readers, CollectSlot(r) PROVE MetaBehind'
  BY <1>22 DEF CollectSlot
<1>23. ASSUME NEW r \in Readers, SaveAndShutDown(r) PROVE MetaBehind'
  BY <1>23 DEF SaveAndShutDown
<1>24. ASSUME NEW r \in Readers, FreeCache(r) PROVE MetaBehind'
  BY <1>24 DEF FreeCache
<1>25. ASSUME NEW w \in Workers, BgUntrack(w) PROVE MetaBehind'
  BY <1>25 DEF BgUntrack
<1>26. ASSUME NEW w \in Workers, BgPost(w) PROVE MetaBehind'
  BY <1>26 DEF BgPost
<1>27. ASSUME NEW t \in Threads, ReceiveChunk(t) PROVE MetaBehind'
  BY <1>27 DEF ReceiveChunk
<1>28. ASSUME NEW t \in Threads, TransferOk(t) PROVE MetaBehind'
  BY <1>28 DEF TransferOk
<1>29. ASSUME NEW t \in Threads, TransferGone(t) PROVE MetaBehind'
  BY <1>29 DEF TransferGone
<1>30. ASSUME NEW t \in Threads, TransferRetry(t) PROVE MetaBehind'
  BY <1>30 DEF TransferRetry
<1>31. ASSUME NEW t \in Threads, Store(t) PROVE MetaBehind'
  BY <1>31 DEF Store, StoreSegment
<1>32. ASSUME NEW t \in Threads, NEW reply \in Replies, Attempt(t, reply)
       PROVE  MetaBehind'
  BY <1>32 DEF Attempt
<1>33. ASSUME UNCHANGED vars PROVE MetaBehind'
  BY <1>33 DEF vars
<1> QED
  BY <1>1, <1>2, <1>3, <1>4, <1>5, <1>6, <1>7, <1>8, <1>9, <1>10, <1>11,
      <1>12, <1>13, <1>14, <1>15, <1>16, <1>17, <1>18, <1>19, <1>20, <1>21,
      <1>22, <1>23, <1>24, <1>25, <1>26, <1>27, <1>28, <1>29, <1>30, <1>31,
      <1>32, <1>33
  DEF Next, Reader, ReadStep, CloseStep, Bgdl, Download

\* LockInv is an invariant of the specification.
THEOREM LockInvariant == Spec => []LockInv
<1>1. LockInv /\ [Next]_vars => LockInv'
  BY TypeStep, NextInRangeStep, WLockHeldStep, MissHoldsStep, MetaBehindStep
  DEF LockInv
<1> QED
  BY LockInit, <1>1, PTL DEF Spec

\* The type invariant: every variable of every reachable state, for any number
\* of readers, background slots, segments and chunks, is in its range.
THEOREM TypeCorrect == Spec => []TypeOK
<1>1. LockInv => TypeOK
  BY DEF LockInv
<1> QED
  BY LockInvariant, <1>1, PTL

-----------------------------------------------------------------------------
(* Which steps put a segment in the list of active downloads. *)

Shrinks ==
  \A s \in Segs : ActiveDownload_find(s)' \subseteq ActiveDownload_find(s)

\* Dropping a reference changes no node's segment, unless it frees the node.
LEMMA UnrefOffset ==
  ASSUME NEW nodes \in [AdIds -> AdNode], NEW a, NEW b \in AdIds
  PROVE  ActiveDownload_unref(nodes, a)[b].offset \in {nodes[b].offset, None}
BY DEF ActiveDownload_unref, FreeAd, AdNode

\* Taking a reference, unlinking and publishing change no node's segment.
LEMMA SameOffset ==
  ASSUME NEW nodes \in [AdIds -> AdNode], NEW a, NEW b \in AdIds,
         NEW t \in Threads
  PROVE  /\ ActiveDownload_ref(nodes, a)[b].offset = nodes[b].offset
         /\ [nodes EXCEPT ![a].unlinked = TRUE][b].offset = nodes[b].offset
         /\ [nodes EXCEPT ![a].ts = t][b].offset = nodes[b].offset
BY DEF ActiveDownload_ref, AdNode

\* Neither more nodes nor other segments in them: nothing new is found.
LEMMA ShrinksIf ==
  ASSUME active_dls' \subseteq active_dls, ListOK,
         \A b \in AdIds : ad'[b].offset \in {ad[b].offset, None}
  PROVE  Shrinks
BY CacheAssumption DEF CacheAssumption, Shrinks, ActiveDownload_find, ListOK

\* Untracking a download adds none.
LEMMA RemoveShrinks ==
  ASSUME ListOK, NEW s, ActiveDownload_remove(s)
  PROVE  Shrinks
<1>1. CASE ActiveDownload_find(s) = {}
  BY <1>1, ShrinksIf DEF ActiveDownload_remove
<1>2. CASE ActiveDownload_find(s) # {}
  <2>1. PICK a \in ActiveDownload_find(s) :
          /\ active_dls' = active_dls \ {a}
          /\ ad' = ActiveDownload_unref([ad EXCEPT ![a].unlinked = TRUE], a)
    BY <1>2 DEF ActiveDownload_remove
  <2>2. [ad EXCEPT ![a].unlinked = TRUE] \in [AdIds -> AdNode]
    BY UnlinkedType DEF ListOK
  <2>3. \A b \in AdIds :
          [ad EXCEPT ![a].unlinked = TRUE][b].offset = ad[b].offset
    BY DEF ListOK, AdNode
  <2> QED
    BY <2>1, <2>2, <2>3, UnrefOffset, ShrinksIf
<1> QED
  BY <1>1, <1>2

\* Adding a node changes what is found for its own segment only.
LEMMA AddGrows ==
  ASSUME ListOK, NEW a \in AdIds, NEW s \in Segs, ActiveDownload_add(a, s),
         NEW u \in Segs, u # s
  PROVE  ActiveDownload_find(u)' \subseteq ActiveDownload_find(u)
BY DEF ListOK, ActiveDownload_add, ActiveDownload_find, AdNode

\* The end of a transfer adds no download.
LEMMA FinishShrinks ==
  ASSUME TypeOK, NEW t \in Threads, UNCHANGED active_dls,
         Link_download_finish_transfer(t)
  PROVE  Shrinks
<1> DEFINE cleared ==
       [a \in AdIds |->
          IF a \in ActiveDownload_find(dl_offset[t]) /\ ad[a].ts = t
          THEN [ad[a] EXCEPT !.ts = None] ELSE ad[a]]
<1>1. cleared \in [AdIds -> AdNode]
  BY UnpublishedType DEF TypeOK, ListOK
<1>2. \A b \in AdIds : cleared[b].offset = ad[b].offset
  BY DEF TypeOK, ListOK, AdNode
<1>3. ad' = ActiveDownload_unref(cleared, ts[t].ad)
  BY DEF Link_download_finish_transfer
<1> HIDE DEF cleared
<1> QED
  BY <1>1, <1>2, <1>3, UnrefOffset, ShrinksIf DEF TypeOK

\* Only three actions, all of them under w_lock, put a download in the list.
LEMMA NextShrinks ==
  ASSUME TypeOK, NextInRange, [Next]_vars
  PROVE  \/ Shrinks
         \/ \E r \in Readers : AddBg(r) \/ SyncStart(r) \/ AddNext(r)
<1> USE DEF TypeOK
<1>1. ASSUME UNCHANGED <<active_dls, ad>> PROVE Shrinks
  BY <1>1, ShrinksIf
<1>2. ASSUME NEW r \in Readers, JoinDownload(r) PROVE Shrinks
  <2>1. PICK a : ad' = ad \/ ad' = ActiveDownload_ref(ad, a)
    BY <1>2 DEF JoinDownload
  <2>2. \A b \in AdIds : ActiveDownload_ref(ad, a)[b].offset = ad[b].offset
    BY DEF ListOK, AdNode, ActiveDownload_ref
  <2> QED
    BY <1>2, <2>1, <2>2, ShrinksIf DEF JoinDownload
<1>3. ASSUME NEW r \in Readers, LeaveWait(r), UNCHANGED active_dls
      PROVE  Shrinks
  BY <1>3, UnrefOffset, ShrinksIf DEF LeaveWait, ListOK
<1>4. ASSUME NEW r \in Readers, SaveAndShutDown(r) PROVE Shrinks
  BY <1>4, CacheAssumption DEF SaveAndShutDown, Shrinks, ActiveDownload_find
<1>5. ASSUME NEW r \in Readers, Cache_open(r) PROVE Shrinks
  BY <1>5, ShrinksIf DEF Cache_open
<1>6. ASSUME NEW t \in Threads, NEW reply \in Replies, Attempt(t, reply)
      PROVE  Shrinks
  <2> PICK a \in ActiveDownload_find(dl_offset[t]) :
         ad' = ActiveDownload_ref([ad EXCEPT ![a].ts = t], a)
    BY <1>6 DEF Attempt
  <2>1. [ad EXCEPT ![a].ts = t] \in [AdIds -> AdNode]
    BY DEF ListOK, AdNode
  <2>2. \A b \in AdIds : [ad EXCEPT ![a].ts = t][b].offset = ad[b].offset
    BY DEF ListOK, AdNode
  <2>3. \A b \in AdIds : ad'[b].offset = ad[b].offset
    BY <2>1, <2>2, SameOffset
  <2> QED
    BY <1>6, <2>3, ShrinksIf DEF Attempt
<1>7. ASSUME NEW t \in Threads, Download(t) PROVE Shrinks
  BY <1>7, <1>1, <1>6, FinishShrinks
  DEF Download, ReceiveChunk, TransferOk, TransferGone, TransferRetry, Store,
      list
<1>8. ASSUME NEW r \in Readers, ReadStep(r),
             ~(AddBg(r) \/ SyncStart(r) \/ AddNext(r))
      PROVE  Shrinks
  BY <1>8, <1>1, <1>2, <1>3, RemoveShrinks
  DEF ReadStep, ReadCached, MissCached, EarlyReturn, SleepAgain,
      DownloadEnded, NoDownload, TrySlot, Launch, SyncRetry, SyncFailed,
      SyncUntrack, PeekNext, TryNextSlot, LaunchNext, list
<1>9. ASSUME NEW r \in Readers,
             Cache_close(r) \/ CloseStep(r) \/ StartRead(r) \/ Cache_open(r)
      PROVE  Shrinks
  BY <1>9, <1>1, <1>4, <1>5 DEF Cache_close, CloseStep, CollectSlot,
      FreeCache, StartRead, list
<1>70. ASSUME NEW w \in Workers, Bgdl(w) PROVE Shrinks
  BY <1>70, <1>1, RemoveShrinks DEF Bgdl, BgUntrack, BgPost, list
<1>71. ASSUME UNCHANGED vars PROVE Shrinks
  BY <1>71, <1>1 DEF vars
<1> QED
  BY <1>7, <1>8, <1>9, <1>70, <1>71 DEF Next, Reader

\* NoRefetch: a download never starts on a segment the bitmap shows
\* (Cache_read_segment looks at the bitmap and adds to the list under one hold
\* of w_lock, or, for the next segment, looks again under w_lock).
THEOREM NeverRefetched == Spec => NoRefetch
<1> DEFINE Fresh == \A s \in Segs :
             ActiveDownload_find(s) = {} /\ ActiveDownload_find(s)' # {}
               => s \notin seg /\ s \notin seg'
<1>1. ASSUME Shrinks PROVE Fresh
  BY <1>1 DEF Shrinks
<1>2. ASSUME LockInv, NEW r \in Readers, AddBg(r) PROVE Fresh
  BY <1>2, AddGrows
  DEF AddBg, files, LockInv, MissHolds, TypeOK, LocalsOK, Threads, UnderWLock,
      ActiveDownload_find
<1>3. ASSUME LockInv, NEW r \in Readers, SyncStart(r) PROVE Fresh
  BY <1>3, AddGrows
  DEF SyncStart, files, LockInv, MissHolds, TypeOK, LocalsOK, Threads,
      UnderWLock
<1>4. ASSUME LockInv, NEW r \in Readers, AddNext(r) PROVE Fresh
  BY <1>4, AddGrows
  DEF AddNext, files, LockInv, TypeOK, Missing, Seg_exist, ActiveDownload_find
<1>5. LockInv /\ [Next]_vars => [Fresh]_vars
  BY <1>1, <1>2, <1>3, <1>4, NextShrinks DEF LockInv
<1> QED
  BY LockInvariant, <1>5, PTL DEF Spec, NoRefetch

-----------------------------------------------------------------------------
(* The second look before a background download. *)

NoRivalHolds == \A r \in Readers : pc[r] \in {"trySlot", "addBg"}
                                    => ActiveDownload_find(dl_offset[r]) = {}

\* Nobody adds a download while a reader that found none holds w_lock.
LEMMA NoRivalStep ==
  ASSUME LockInv, NoRivalHolds, [Next]_vars PROVE NoRivalHolds'
<1> USE CacheAssumption
    DEF CacheAssumption, LockInv, TypeOK, NoRivalHolds, WLockHeld, UnderWLock,
        Shrinks, locals, handles, Goto, Return, Threads, PcOK, LocalsOK,
        ReaderPcs, WorkerPcs
<1>1. ASSUME NEW r \in Readers, Cache_open(r), Shrinks PROVE NoRivalHolds'
  BY <1>1 DEF Cache_open
<1>2. ASSUME NEW r \in Readers, StartRead(r), Shrinks PROVE NoRivalHolds'
  BY <1>2 DEF StartRead
<1>3. ASSUME NEW r \in Readers, ReadCached(r), Shrinks PROVE NoRivalHolds'
  BY <1>3 DEF ReadCached
<1>4. ASSUME NEW r \in Readers, MissCached(r), Shrinks PROVE NoRivalHolds'
  BY <1>4 DEF MissCached
<1>5. ASSUME NEW r \in Readers, JoinDownload(r), Shrinks PROVE NoRivalHolds'
  BY <1>5 DEF JoinDownload
<1>6. ASSUME NEW r \in Readers, EarlyReturn(r), Shrinks PROVE NoRivalHolds'
  BY <1>6 DEF EarlyReturn, Awake
<1>7. ASSUME NEW r \in Readers, SleepAgain(r), Shrinks PROVE NoRivalHolds'
  BY <1>7 DEF SleepAgain
<1>8. ASSUME NEW r \in Readers, DownloadEnded(r), Shrinks PROVE NoRivalHolds'
  BY <1>8 DEF DownloadEnded, Awake
<1>9. ASSUME NEW r \in Readers, NoDownload(r), Shrinks PROVE NoRivalHolds'
  BY <1>9 DEF NoDownload
<1>10. ASSUME NEW r \in Readers, TrySlot(r), Shrinks PROVE NoRivalHolds'
  BY <1>10 DEF TrySlot
<1>11. ASSUME NEW r \in Readers, AddBg(r) PROVE NoRivalHolds'
  BY <1>11 DEF AddBg
<1>12. ASSUME NEW r \in Readers, Launch(r), Shrinks PROVE NoRivalHolds'
  BY <1>12 DEF Launch, Cache_bgdl_launcher
<1>13. ASSUME NEW r \in Readers, SyncRetry(r), Shrinks PROVE NoRivalHolds'
  BY <1>13 DEF SyncRetry
<1>14. ASSUME NEW r \in Readers, SyncStart(r) PROVE NoRivalHolds'
  BY <1>14 DEF SyncStart
<1>15. ASSUME NEW r \in Readers, SyncFailed(r), Shrinks PROVE NoRivalHolds'
  BY <1>15 DEF SyncFailed
<1>16. ASSUME NEW r \in Readers, SyncUntrack(r), Shrinks PROVE NoRivalHolds'
  BY <1>16 DEF SyncUntrack
<1>17. ASSUME NEW r \in Readers, PeekNext(r), Shrinks PROVE NoRivalHolds'
  BY <1>17 DEF PeekNext
<1>18. ASSUME NEW r \in Readers, TryNextSlot(r), Shrinks PROVE NoRivalHolds'
  BY <1>18 DEF TryNextSlot
<1>19. ASSUME NEW r \in Readers, AddNext(r) PROVE NoRivalHolds'
  BY <1>19 DEF AddNext
<1>20. ASSUME NEW r \in Readers, LaunchNext(r), Shrinks PROVE NoRivalHolds'
  BY <1>20 DEF LaunchNext, Cache_bgdl_launcher
<1>21. ASSUME NEW r \in Readers, Cache_close(r), Shrinks PROVE NoRivalHolds'
  BY <1>21 DEF Cache_close
<1>22. ASSUME NEW r \in Readers, CollectSlot(r), Shrinks PROVE NoRivalHolds'
  BY <1>22 DEF CollectSlot
<1>23. ASSUME NEW r \in Readers, SaveAndShutDown(r), Shrinks
       PROVE  NoRivalHolds'
  BY <1>23 DEF SaveAndShutDown
<1>24. ASSUME NEW r \in Readers, FreeCache(r), Shrinks PROVE NoRivalHolds'
  BY <1>24 DEF FreeCache
<1>25. ASSUME NEW w \in Workers, BgUntrack(w), Shrinks PROVE NoRivalHolds'
  BY <1>25 DEF BgUntrack
<1>26. ASSUME NEW w \in Workers, BgPost(w), Shrinks PROVE NoRivalHolds'
  BY <1>26 DEF BgPost
<1>27. ASSUME NEW t \in Threads, ReceiveChunk(t), Shrinks PROVE NoRivalHolds'
  BY <1>27 DEF ReceiveChunk
<1>28. ASSUME NEW t \in Threads, TransferOk(t), Shrinks PROVE NoRivalHolds'
  BY <1>28 DEF TransferOk
<1>29. ASSUME NEW t \in Threads, TransferGone(t), Shrinks PROVE NoRivalHolds'
  BY <1>29 DEF TransferGone
<1>30. ASSUME NEW t \in Threads, TransferRetry(t), Shrinks PROVE NoRivalHolds'
  BY <1>30 DEF TransferRetry
<1>31. ASSUME NEW t \in Threads, Store(t), Shrinks PROVE NoRivalHolds'
  BY <1>31 DEF Store
<1>32. ASSUME NEW t \in Threads, NEW reply \in Replies, Attempt(t, reply),
              Shrinks PROVE NoRivalHolds'
  BY <1>32 DEF Attempt
<1>33. ASSUME UNCHANGED vars, Shrinks PROVE NoRivalHolds'
  BY <1>33 DEF vars
<1> QED
  BY NextShrinks, <1>1, <1>2, <1>3, <1>4, <1>5, <1>6, <1>7, <1>8, <1>9, <1>10,
      <1>11, <1>12, <1>13, <1>14, <1>15, <1>16, <1>17, <1>18, <1>19, <1>20,
      <1>21, <1>22, <1>23, <1>24, <1>25, <1>26, <1>27, <1>28, <1>29, <1>30,
      <1>31, <1>32, <1>33
  DEF Next, Reader, ReadStep, CloseStep, Bgdl, Download

\* AddBgFindsNoRival: the second look before a background download never finds
\* one (cache.c:1495-1509), so its back-off branch is never taken.
THEOREM NoRivalFound == Spec => []AddBgFindsNoRival
<1>1. Init => NoRivalHolds
  BY DEF Init, NoRivalHolds, Threads
<1>2. LockInv /\ NoRivalHolds /\ [Next]_vars => NoRivalHolds'
  BY NoRivalStep
<1>3. NoRivalHolds => AddBgFindsNoRival
  BY DEF NoRivalHolds, AddBgFindsNoRival
<1> QED
  BY LockInvariant, <1>1, <1>2, <1>3, PTL DEF Spec

-----------------------------------------------------------------------------
(* What the counters count: cache_opened the open handles, bgt_sem the     *)
(* slots nobody has, waiters the registered threads.  Together they tell   *)
(* when nobody is left: the last closer, once it has every slot.           *)


CountIn(f, S, labels) == Cardinality({x \in S : f[x] \in labels})

OpenPcs == ReaderPcs \ {"closed", "closing", "freeing"}
SlotPcs == {"addBg", "launch", "addNext", "launchNext"}
BusyPcs == WorkerPcs \ {"idle"}
DownloadPcs == {"attempt", "transfer", "store", "untrack"}

Opened   == CountIn(pc, Readers, OpenPcs)
Holding  == CountIn(pc, Readers, SlotPcs)
Busy     == CountIn(pc, Workers, BusyPcs)
Waiting  == CountIn(pc, Readers, {"wait"})
Fetching == CountIn(pc, Threads, DownloadPcs)

-----------------------------------------------------------------------------
(* Counting. *)

\* A count is a number, and zero exactly when nothing is counted.
LEMMA CountType ==
  ASSUME NEW S, IsFiniteSet(S), NEW labels, NEW f
  PROVE  /\ CountIn(f, S, labels) \in Nat
         /\ CountIn(f, S, labels) = 0 <=> \A x \in S : f[x] \notin labels
<1>1. IsFiniteSet({x \in S : f[x] \in labels})
  BY FS_Subset
<1> QED
  BY <1>1, FS_CardinalityType, FS_EmptySet DEF CountIn

\* When one element comes or goes, the count changes by that element.
LEMMA CountOne ==
  ASSUME NEW S, IsFiniteSet(S), NEW labels, NEW f, NEW g, NEW t,
         \A x \in S \ {t} : g[x] \in labels <=> f[x] \in labels
  PROVE  CountIn(g, S, labels) = CountIn(f, S, labels)
                                 + (IF t \in S /\ g[t] \in labels THEN 1 ELSE 0)
                                 - (IF t \in S /\ f[t] \in labels THEN 1 ELSE 0)
<1> DEFINE F == {x \in S : f[x] \in labels}
           G == {x \in S : g[x] \in labels}
<1>1. IsFiniteSet(F) /\ IsFiniteSet(G)
  BY FS_Subset
<1>2. Cardinality(F \ {t}) = Cardinality(G \ {t})
  <2>1. F \ {t} = G \ {t}
    OBVIOUS
  <2> QED
    BY <2>1, Zenon
<1>3. /\ t \in F <=> t \in S /\ f[t] \in labels
      /\ t \in G <=> t \in S /\ g[t] \in labels
      /\ CountIn(f, S, labels) = Cardinality(F)
      /\ CountIn(g, S, labels) = Cardinality(G)
  BY DEF CountIn
<1> HIDE DEF F, G
<1>4. Cardinality(F) \in Nat /\ Cardinality(G) \in Nat
  BY <1>1, FS_CardinalityType
<1>5. Cardinality(F \ {t}) = IF t \in F THEN Cardinality(F) - 1
                                         ELSE Cardinality(F)
  BY <1>1, FS_RemoveElement, Zenon
<1>6. Cardinality(G \ {t}) = IF t \in G THEN Cardinality(G) - 1
                                         ELSE Cardinality(G)
  BY <1>1, FS_RemoveElement, Zenon
<1>7. Cardinality(G) = Cardinality(F) + (IF t \in G THEN 1 ELSE 0)
                                       - (IF t \in F THEN 1 ELSE 0)
  BY <1>2, <1>4, <1>5, <1>6
<1> QED
  BY <1>3, <1>7

\* The threads, readers and workers are finitely many.
LEMMA FiniteThreads ==
  IsFiniteSet(Readers) /\ IsFiniteSet(Workers) /\ IsFiniteSet(Threads)
BY CacheAssumption, FS_Union DEF CacheAssumption, Threads

\* A reader that moves changes the counts by its own old and new label.
LEMMA ReaderMoves ==
  ASSUME PcOK, NEW r \in Readers, NEW label, Goto(r, label)
  PROVE  /\ Opened' = Opened + (IF label \in OpenPcs THEN 1 ELSE 0)
                             - (IF pc[r] \in OpenPcs THEN 1 ELSE 0)
         /\ Holding' = Holding + (IF label \in SlotPcs THEN 1 ELSE 0)
                               - (IF pc[r] \in SlotPcs THEN 1 ELSE 0)
         /\ Busy' = Busy
         /\ Waiting' = Waiting + (IF label = "wait" THEN 1 ELSE 0)
                               - (IF pc[r] = "wait" THEN 1 ELSE 0)
         /\ Fetching' = Fetching + (IF label \in DownloadPcs THEN 1 ELSE 0)
                                 - (IF pc[r] \in DownloadPcs THEN 1 ELSE 0)
<1>1. pc' = [pc EXCEPT ![r] = label] /\ r \in Threads /\ r \notin Workers
  BY CacheAssumption DEF Goto, Threads, CacheAssumption
<1>2. pc'[r] = label /\ \A x \in Threads \ {r} : pc'[x] = pc[x]
  BY <1>1 DEF PcOK
<1>3. ASSUME NEW S \in SUBSET Threads, IsFiniteSet(S), NEW labels
      PROVE  CountIn(pc', S, labels) = CountIn(pc, S, labels)
                                       + (IF r \in S /\ label \in labels THEN 1 ELSE 0)
                                       - (IF r \in S /\ pc[r] \in labels THEN 1 ELSE 0)
  <2>1. \A x \in S \ {r} : pc'[x] = pc[x]
    BY <1>2
  <2> QED
    BY <1>2, <1>3, <2>1, CountOne
<1>4. /\ Opened \in Nat /\ Holding \in Nat /\ Busy \in Nat
      /\ Waiting \in Nat /\ Fetching \in Nat
  BY FiniteThreads, CountType DEF Opened, Holding, Busy, Waiting, Fetching
<1>5. Workers \in SUBSET Threads /\ Readers \in SUBSET Threads
  BY DEF Threads
<1>6. Busy' = Busy
  <2>1. CountIn(pc', Workers, BusyPcs) = CountIn(pc, Workers, BusyPcs) + 0 - 0
    BY <1>1, <1>3, <1>5, FiniteThreads
  <2> QED
    BY <1>4, <2>1 DEF Busy
<1>7. /\ Opened' = Opened + (IF label \in OpenPcs THEN 1 ELSE 0)
                          - (IF pc[r] \in OpenPcs THEN 1 ELSE 0)
      /\ Holding' = Holding + (IF label \in SlotPcs THEN 1 ELSE 0)
                            - (IF pc[r] \in SlotPcs THEN 1 ELSE 0)
      /\ Waiting' = Waiting + (IF label = "wait" THEN 1 ELSE 0)
                            - (IF pc[r] = "wait" THEN 1 ELSE 0)
  <2>1. \A labels : CountIn(pc', Readers, labels)
                      = CountIn(pc, Readers, labels)
                        + (IF label \in labels THEN 1 ELSE 0)
                        - (IF pc[r] \in labels THEN 1 ELSE 0)
    BY <1>3, <1>5, FiniteThreads
  <2> QED
    BY <2>1 DEF Opened, Holding, Waiting
<1>8. Fetching' = Fetching + (IF label \in DownloadPcs THEN 1 ELSE 0)
                           - (IF pc[r] \in DownloadPcs THEN 1 ELSE 0)
  BY <1>1, <1>3, FiniteThreads DEF Fetching
<1> QED
  BY <1>6, <1>7, <1>8

\* So does a background thread.
LEMMA WorkerMoves ==
  ASSUME PcOK, NEW w \in Workers, NEW label, Goto(w, label)
  PROVE  /\ Opened' = Opened /\ Holding' = Holding /\ Waiting' = Waiting
         /\ Busy' = Busy + (IF label \in BusyPcs THEN 1 ELSE 0)
                         - (IF pc[w] \in BusyPcs THEN 1 ELSE 0)
         /\ Fetching' = Fetching + (IF label \in DownloadPcs THEN 1 ELSE 0)
                                 - (IF pc[w] \in DownloadPcs THEN 1 ELSE 0)
<1>1. pc' = [pc EXCEPT ![w] = label] /\ w \in Threads /\ w \notin Readers
  BY CacheAssumption DEF Goto, Threads, CacheAssumption
<1>2. pc'[w] = label /\ \A x \in Threads \ {w} : pc'[x] = pc[x]
  BY <1>1 DEF PcOK
<1>3. \A x \in Readers : pc'[x] = pc[x]
  BY <1>1, <1>2 DEF Threads
<1>4. Opened' = Opened /\ Holding' = Holding /\ Waiting' = Waiting
  <2>1. ASSUME NEW labels
        PROVE  CountIn(pc', Readers, labels) = CountIn(pc, Readers, labels)
    <3>1. {x \in Readers : pc'[x] \in labels} = {x \in Readers : pc[x] \in labels}
      BY <1>3
    <3> QED
      BY <3>1, Zenon DEF CountIn
  <2> QED
    BY <2>1 DEF Opened, Holding, Waiting
<1>5. Busy' = Busy + (IF label \in BusyPcs THEN 1 ELSE 0)
                   - (IF pc[w] \in BusyPcs THEN 1 ELSE 0)
  <2>1. \A x \in Workers \ {w} : pc'[x] \in BusyPcs <=> pc[x] \in BusyPcs
    BY <1>2 DEF Threads
  <2> QED
    BY <1>2, <2>1, FiniteThreads, CountOne DEF Busy
<1>6. Fetching' = Fetching + (IF label \in DownloadPcs THEN 1 ELSE 0)
                           - (IF pc[w] \in DownloadPcs THEN 1 ELSE 0)
  <2>1. \A x \in Threads \ {w} : pc'[x] \in DownloadPcs <=> pc[x] \in DownloadPcs
    BY <1>2
  <2>2. CountIn(pc', Threads, DownloadPcs)
          = CountIn(pc, Threads, DownloadPcs)
            + (IF w \in Threads /\ pc'[w] \in DownloadPcs THEN 1 ELSE 0)
            - (IF w \in Threads /\ pc[w] \in DownloadPcs THEN 1 ELSE 0)
    BY <2>1, FiniteThreads, CountOne
  <2> QED
    BY <1>1, <1>2, <2>2 DEF Fetching
<1> QED
  BY <1>4, <1>5, <1>6

\* A new background thread is one more that is busy and one more that fetches;
\* the reader that created it no longer holds the slot.
LEMMA LauncherMoves ==
  ASSUME PcOK, NEW r \in Readers, NEW w \in Workers,
         NEW label \in {"lockW", "ready"}, pc[r] \in {"launch", "launchNext"},
         Cache_bgdl_launcher(r, w, label)
  PROVE  /\ Opened' = Opened /\ Waiting' = Waiting
         /\ Holding' = Holding - 1 /\ Busy' = Busy + 1
         /\ Fetching' = Fetching + 1
<1> USE FiniteThreads
<1>1. /\ r \in Threads /\ w \in Threads /\ r \notin Workers /\ w \notin Readers
      /\ Readers \subseteq Threads /\ Workers \subseteq Threads
  BY CacheAssumption DEF Threads, CacheAssumption
<1>2. /\ pc[w] = "idle" /\ pc'[w] = "attempt" /\ pc'[r] = label
      /\ \A x \in Threads \ {r, w} : pc'[x] = pc[x]
  BY <1>1 DEF Cache_bgdl_launcher, PcOK
<1>3. /\ Opened \in Nat /\ Holding \in Nat /\ Busy \in Nat
      /\ Waiting \in Nat /\ Fetching \in Nat
  BY CountType DEF Opened, Holding, Busy, Waiting, Fetching
<1>4. ASSUME NEW labels
      PROVE  CountIn(pc', Readers, labels)
               = CountIn(pc, Readers, labels)
                 + (IF label \in labels THEN 1 ELSE 0)
                 - (IF pc[r] \in labels THEN 1 ELSE 0)
  <2>1. \A x \in Readers \ {r} : pc'[x] \in labels <=> pc[x] \in labels
    BY <1>1, <1>2
  <2> QED
    BY <1>2, <2>1, CountOne
<1>5. Opened' = Opened /\ Waiting' = Waiting /\ Holding' = Holding - 1
  <2>1. /\ label \in OpenPcs /\ pc[r] \in OpenPcs
        /\ label \notin SlotPcs /\ pc[r] \in SlotPcs
        /\ label # "wait" /\ pc[r] # "wait"
    BY DEF OpenPcs, ReaderPcs, SlotPcs
  <2> QED
    BY <1>3, <1>4, <2>1 DEF Opened, Holding, Waiting
<1>6. Busy' = Busy + 1
  <2>1. \A x \in Workers \ {w} : pc'[x] \in BusyPcs <=> pc[x] \in BusyPcs
    BY <1>1, <1>2
  <2>2. CountIn(pc', Workers, BusyPcs) = CountIn(pc, Workers, BusyPcs) + 1 - 0
    BY <1>2, <2>1, CountOne DEF BusyPcs, WorkerPcs
  <2> QED
    BY <1>3, <2>2 DEF Busy
<1>7. Fetching' = Fetching + 1
  <2>1. \A x \in Threads \ {w} : pc'[x] \in DownloadPcs <=> pc[x] \in DownloadPcs
    BY <1>2 DEF DownloadPcs
  <2>2. CountIn(pc', Threads, DownloadPcs)
          = CountIn(pc, Threads, DownloadPcs) + 1 - 0
    BY <1>1, <1>2, <2>1, CountOne DEF DownloadPcs
  <2> QED
    BY <1>3, <2>2 DEF Fetching
<1> QED
  BY <1>5, <1>6, <1>7

\* A thread that goes on with its download changes no count.
LEMMA DownloadMoves ==
  ASSUME PcOK, NEW t \in Threads, NEW label \in DownloadPcs,
         pc[t] \in DownloadPcs, Goto(t, label)
  PROVE  /\ Opened' = Opened /\ Holding' = Holding /\ Busy' = Busy
         /\ Waiting' = Waiting /\ Fetching' = Fetching
<1>1. pc' = [pc EXCEPT ![t] = label]
  BY DEF Goto
<1>2. pc'[t] = label /\ \A x \in Threads \ {t} : pc'[x] = pc[x]
  BY <1>1 DEF PcOK
<1>3. \A x \in Threads :
        /\ pc'[x] \in OpenPcs <=> pc[x] \in OpenPcs
        /\ pc'[x] \in SlotPcs <=> pc[x] \in SlotPcs
        /\ pc'[x] \in BusyPcs <=> pc[x] \in BusyPcs
        /\ pc'[x] \in {"wait"} <=> pc[x] \in {"wait"}
        /\ pc'[x] \in DownloadPcs <=> pc[x] \in DownloadPcs
  BY <1>2 DEF DownloadPcs, OpenPcs, ReaderPcs, SlotPcs, BusyPcs, WorkerPcs
<1>4. ASSUME NEW S \in SUBSET Threads, NEW labels,
             \A x \in Threads : pc'[x] \in labels <=> pc[x] \in labels
      PROVE  CountIn(pc', S, labels) = CountIn(pc, S, labels)
  <2>1. {x \in S : pc'[x] \in labels} = {x \in S : pc[x] \in labels}
    BY <1>4
  <2> QED
    BY <2>1, Zenon DEF CountIn
<1>5. Readers \in SUBSET Threads /\ Workers \in SUBSET Threads
  BY DEF Threads
<1> QED
  BY <1>3, <1>4, <1>5 DEF Opened, Holding, Busy, Waiting, Fetching

-----------------------------------------------------------------------------
(* The counters. *)

Collected == IF cf_lock = None THEN 0 ELSE slots[cf_lock]

\* cf_lock is held by the last closer, and there is one when no handle is open.
HandlesCounted ==
  /\ cache_opened = Opened
  /\ \A r \in Readers : cf_lock = r <=> pc[r] \in {"closing", "freeing"}
  /\ cf_lock # None => cache_opened = 0

SlotsCounted ==
  /\ bgt_sem \in Nat
  /\ \A r \in Readers : /\ slots[r] \in Nat
                        /\ cf_lock # r => slots[r] = 0
                        /\ pc[r] = "freeing" => slots[r] = NumBgWorkers
  /\ cache_opened > 0 \/ cf_lock # None
       => bgt_sem + Collected + Holding + Busy = NumBgWorkers
  /\ cache_opened = 0 /\ cf_lock = None => Busy = 0

WaitersCounted == waiters = Waiting + Fetching

Counted == HandlesCounted /\ SlotsCounted /\ WaitersCounted

\* The counts are numbers, before and after a step.
LEMMA CountsAreNat ==
  /\ Opened \in Nat /\ Holding \in Nat /\ Busy \in Nat
  /\ Waiting \in Nat /\ Fetching \in Nat
  /\ Opened' \in Nat /\ Holding' \in Nat /\ Busy' \in Nat
BY FiniteThreads, CountType DEF Opened, Holding, Busy, Waiting, Fetching

\* Nobody is in the Cache when no handle is open and no slot is out.
Quiet == \A t \in Threads : pc[t] \in {"closed", "closing", "freeing", "idle"}

\* No handle open and no slot out: every thread is outside, and none counts.
LEMMA QuietWhen ==
  ASSUME TypeOK, Opened = 0, Busy = 0
  PROVE  Quiet /\ Holding = 0 /\ Waiting = 0 /\ Fetching = 0
<1>1. \A r \in Readers : pc[r] \notin OpenPcs
  BY FiniteThreads, CountType DEF Opened
<1>2. \A w \in Workers : pc[w] \notin BusyPcs
  BY FiniteThreads, CountType DEF Busy
<1>3. Quiet
  BY <1>1, <1>2 DEF Quiet, Threads, TypeOK, PcOK, OpenPcs, BusyPcs
<1>4. Holding = 0 /\ Waiting = 0 /\ Fetching = 0
  BY <1>3, FiniteThreads, CountType
  DEF Quiet, Threads, Holding, Waiting, Fetching, SlotPcs, DownloadPcs
<1> QED
  BY <1>3, <1>4

\* Where the threads are after a reader has moved: FUSE's own thread.
LEMMA ReaderAt ==
  ASSUME PcOK, NEW r \in Readers, NEW label, Goto(r, label)
  PROVE  /\ \A x \in Readers : pc'[x] = IF x = r THEN label ELSE pc[x]
         /\ \A w \in Workers : pc'[w] = pc[w]
BY CacheAssumption DEF PcOK, Goto, Threads, CacheAssumption

\* The same for a background thread.
LEMMA WorkerAt ==
  ASSUME PcOK, NEW w \in Workers, NEW label, Goto(w, label)
  PROVE  /\ \A r \in Readers : pc'[r] = pc[r]
         /\ \A x \in Workers : pc'[x] = IF x = w THEN label ELSE pc[x]
BY CacheAssumption DEF PcOK, Goto, Threads, CacheAssumption

\* A reader that creates a background thread moves, and starts it.
LEMMA LauncherAt ==
  ASSUME PcOK, NEW r \in Readers, NEW w \in Workers, NEW label,
         Cache_bgdl_launcher(r, w, label)
  PROVE  /\ \A x \in Readers : pc'[x] = IF x = r THEN label ELSE pc[x]
         /\ \A x \in Workers : pc'[x] = IF x = w THEN "attempt" ELSE pc[x]
BY CacheAssumption
DEF PcOK, Cache_bgdl_launcher, Threads, CacheAssumption

\* A transfer is run by a thread of either kind.
LEMMA DownloadAt ==
  ASSUME PcOK, NEW t \in Threads, NEW label, Goto(t, label)
  PROVE  \A x \in Threads : pc'[x] = IF x = t THEN label ELSE pc[x]
BY DEF PcOK, Goto

\* A read moves its own reader only, from one label of Cache_read_segment to
\* another; no handle is opened or closed.
LEMMA ReadStays ==
  ASSUME PcOK, NEW r \in Readers, ReadStep(r) \/ StartRead(r)
  PROVE  /\ pc[r] \in OpenPcs /\ pc'[r] \in OpenPcs
         /\ \A x \in Readers \ {r} : pc'[x] = pc[x]
         /\ UNCHANGED handles
<1> USE ReaderAt DEF OpenPcs, ReaderPcs
<1>1. CASE ReadCached(r)
  BY <1>1 DEF ReadCached
<1>2. CASE MissCached(r)
  BY <1>2 DEF MissCached
<1>3. CASE JoinDownload(r)
  BY <1>3 DEF JoinDownload
<1>4. CASE EarlyReturn(r)
  BY <1>4 DEF EarlyReturn, Awake
<1>5. CASE SleepAgain(r)
  BY <1>5 DEF SleepAgain, Awake
<1>6. CASE DownloadEnded(r)
  BY <1>6 DEF DownloadEnded, Awake, Return
<1>7. CASE NoDownload(r)
  BY <1>7 DEF NoDownload
<1>8. CASE TrySlot(r)
  BY <1>8 DEF TrySlot
<1>9. CASE AddBg(r)
  BY <1>9 DEF AddBg
<1>10. CASE Launch(r)
  BY <1>10, LauncherAt DEF Launch
<1>11. CASE SyncRetry(r)
  BY <1>11 DEF SyncRetry
<1>12. CASE SyncStart(r)
  BY <1>12 DEF SyncStart
<1>13. CASE SyncFailed(r)
  BY <1>13 DEF SyncFailed, Return
<1>14. CASE SyncUntrack(r)
  BY <1>14 DEF SyncUntrack
<1>15. CASE PeekNext(r)
  BY <1>15 DEF PeekNext, Return
<1>16. CASE TryNextSlot(r)
  BY <1>16 DEF TryNextSlot, Return
<1>17. CASE AddNext(r)
  BY <1>17 DEF AddNext, Return
<1>18. CASE LaunchNext(r)
  BY <1>18, LauncherAt DEF LaunchNext
<1>19. CASE StartRead(r)
  BY <1>19 DEF StartRead
<1> QED
  BY <1>1, <1>2, <1>3, <1>4, <1>5, <1>6, <1>7, <1>8, <1>9, <1>10, <1>11, <1>12,
     <1>13, <1>14, <1>15, <1>16, <1>17, <1>18, <1>19
  DEF ReadStep

\* A step of a transfer or a store moves its own thread, on to another label of
\* a download, and touches neither the handles nor the slots nor the waiters.
LEMMA DownloadStays ==
  ASSUME PcOK, NEW t \in Threads, Download(t)
  PROVE  /\ pc[t] \in DownloadPcs /\ pc'[t] \in DownloadPcs
         /\ \A x \in Threads \ {t} : pc'[x] = pc[x]
         /\ UNCHANGED <<handles, bgt_sem, waiters>>
         /\ Opened' = Opened /\ Holding' = Holding /\ Busy' = Busy
         /\ Waiting' = Waiting /\ Fetching' = Fetching
<1> USE DownloadAt, DownloadMoves DEF DownloadPcs
<1>1. CASE ReceiveChunk(t)
  BY <1>1 DEF ReceiveChunk, list, Opened, Holding, Busy, Waiting, Fetching
<1>2. CASE TransferOk(t)
  BY <1>2 DEF TransferOk, list
<1>3. CASE TransferGone(t)
  BY <1>3 DEF TransferGone, list
<1>4. CASE TransferRetry(t)
  BY <1>4 DEF TransferRetry, list
<1>5. CASE Store(t)
  BY <1>5 DEF Store, list
<1>6. ASSUME NEW reply \in Replies, Attempt(t, reply)
      PROVE  /\ pc[t] \in DownloadPcs /\ pc'[t] \in DownloadPcs
             /\ \A x \in Threads \ {t} : pc'[x] = pc[x]
             /\ UNCHANGED <<handles, bgt_sem, waiters>>
             /\ Opened' = Opened /\ Holding' = Holding /\ Busy' = Busy
             /\ Waiting' = Waiting /\ Fetching' = Fetching
  BY <1>6 DEF Attempt
<1> QED
  BY <1>1, <1>2, <1>3, <1>4, <1>5, <1>6 DEF Download

\* cache_opened goes with the number of open handles, and cf_lock stays with the
\* last closer.
LEMMA HandlesStep == ASSUME LockInv, Counted, [Next]_vars PROVE HandlesCounted'
<1> PcOK /\ cf_lock \in Readers \cup {None} /\ None \notin Readers
  BY CacheAssumption DEF LockInv, TypeOK, HandlesOK, CacheAssumption, Threads
<1> USE CountsAreNat DEF Counted, HandlesCounted, handles
<1>1. ASSUME NEW r \in Readers, Cache_open(r) PROVE HandlesCounted'
  <2>1. Opened' = Opened + 1
    BY <1>1, ReaderMoves DEF Cache_open, OpenPcs, ReaderPcs
  <2> QED
    BY <1>1, <2>1, ReaderAt DEF Cache_open
<1>2. ASSUME NEW r \in Readers, ReadStep(r) \/ StartRead(r)
      PROVE  HandlesCounted'
  <2>1. \A x \in Readers \ {r} : pc'[x] \in OpenPcs <=> pc[x] \in OpenPcs
    BY <1>2, ReadStays
  <2>2. CountIn(pc', Readers, OpenPcs) = CountIn(pc, Readers, OpenPcs) + 1 - 1
    BY <1>2, <2>1, ReadStays, CountOne, FiniteThreads
  <2>3. Opened' = Opened
    BY <2>2 DEF Opened
  <2> QED
    BY <1>2, <2>3, ReadStays DEF OpenPcs
<1>3. ASSUME NEW r \in Readers, Cache_close(r) PROVE HandlesCounted'
  <2>1. Opened' = Opened - 1
    BY <1>3, ReaderMoves DEF Cache_close, OpenPcs, ReaderPcs
  <2> QED
    BY <1>3, <2>1, ReaderAt DEF Cache_close
<1>4. ASSUME NEW r \in Readers, CollectSlot(r) PROVE HandlesCounted'
  BY <1>4 DEF CollectSlot, Opened
<1>5. ASSUME NEW r \in Readers, SaveAndShutDown(r) PROVE HandlesCounted'
  <2>1. Opened' = Opened
    BY <1>5, ReaderMoves DEF SaveAndShutDown, OpenPcs
  <2> QED
    BY <1>5, <2>1, ReaderAt DEF SaveAndShutDown
<1>6. ASSUME NEW r \in Readers, FreeCache(r) PROVE HandlesCounted'
  <2>1. Opened' = Opened
    BY <1>6, ReaderMoves DEF FreeCache, OpenPcs
  <2>2. cf_lock = r /\ cache_opened = 0
    BY <1>6 DEF FreeCache
  <2> QED
    BY <1>6, <2>1, <2>2, ReaderAt DEF FreeCache
<1>7. ASSUME NEW t \in Threads, Download(t) PROVE HandlesCounted'
  BY <1>7, DownloadStays DEF DownloadPcs, Threads
<1>8. ASSUME NEW w \in Workers, Bgdl(w) PROVE HandlesCounted'
  BY <1>8, WorkerMoves, WorkerAt DEF Bgdl, BgUntrack, BgPost
<1>9. ASSUME UNCHANGED vars PROVE HandlesCounted'
  BY <1>9 DEF vars, Opened
<1> QED
  BY <1>1, <1>2, <1>3, <1>4, <1>5, <1>6, <1>7, <1>8, <1>9
  DEF Next, Reader, CloseStep

\* Every slot that leaves bgt_sem is held by a reader, then by the background
\* thread it creates, or by the last closer, and comes back from there.
LEMMA SlotsStep == ASSUME LockInv, Counted, [Next]_vars PROVE SlotsCounted'
<1> /\ PcOK /\ cf_lock \in Readers \cup {None} /\ None \notin Readers
    /\ bgt_sem \in Nat /\ NumBgWorkers \in Nat /\ Collected \in Nat
    /\ slots \in [Readers -> Int]
    /\ \A r \in Readers : cf_lock = r <=> pc[r] \in {"closing", "freeing"}
    /\ cf_lock # None => cache_opened = 0
    /\ cache_opened = Opened
  BY CacheAssumption, FirstValues
  DEF LockInv, TypeOK, HandlesOK, CacheAssumption, Threads, Counted,
      HandlesCounted, SlotsCounted, Collected
<1> SlotsCounted
  BY DEF Counted
<1> USE CountsAreNat
<1>1. ASSUME NEW r \in Readers, Cache_open(r) PROVE SlotsCounted'
  <2>1. Holding' = Holding /\ Busy' = Busy
    BY <1>1, ReaderMoves DEF Cache_open, SlotPcs
  <2>2. Collected = 0 /\ Collected' = 0
    BY <1>1 DEF Cache_open, Collected, handles
  <2>3. CASE cache_opened = 0
    <3>1. Holding = 0 /\ Busy = 0
      BY <1>1, <2>3, QuietWhen DEF Cache_open, LockInv, SlotsCounted
    <3> QED
      BY <1>1, <2>1, <2>2, <2>3, <3>1, ReaderAt DEF Cache_open, SlotsCounted
  <2>4. CASE cache_opened # 0
    BY <1>1, <2>1, <2>2, <2>4, ReaderAt DEF Cache_open, SlotsCounted
  <2> QED
    BY <2>3, <2>4
\* A step that takes or gives back no slot.
<1>2. ASSUME UNCHANGED <<cf_lock, cache_opened, slots, bgt_sem>>,
             Holding' = Holding, Busy' = Busy,
             \A x \in Readers : pc'[x] = "freeing" => pc[x] = "freeing"
      PROVE  SlotsCounted'
  BY <1>2 DEF SlotsCounted, Collected
\* A slot goes from bgt_sem to a reader, or back.
<1>3. ASSUME UNCHANGED <<cf_lock, cache_opened, slots>>,
             Busy' = Busy,
             \/ bgt_sem > 0 /\ bgt_sem' = bgt_sem - 1 /\ Holding' = Holding + 1
             \/ bgt_sem' = bgt_sem /\ Holding' = Holding
             \/ bgt_sem' = bgt_sem + 1 /\ Holding' = Holding - 1,
             \A x \in Readers : pc'[x] = "freeing" => pc[x] = "freeing"
      PROVE  SlotsCounted'
  <2>1. Collected' = Collected
    BY <1>3 DEF Collected
  <2>2. bgt_sem' + Collected' + Holding' + Busy'
          = bgt_sem + Collected + Holding + Busy
    BY <1>3, <2>1
  <2>3. bgt_sem' \in Nat /\ UNCHANGED <<cf_lock, cache_opened, slots, Busy>>
    BY <1>3
  <2> QED
    BY <1>3, <2>2, <2>3, Zenon DEF SlotsCounted
<1>4. ASSUME NEW r \in Readers, ReadStep(r) \/ StartRead(r)
      PROVE  /\ UNCHANGED <<cf_lock, cache_opened, slots>>
             /\ \A x \in Readers : pc'[x] = "freeing" => pc[x] = "freeing"
  BY <1>4, ReadStays DEF OpenPcs, handles
<1>5. ASSUME NEW r \in Readers,
             \/ ReadCached(r) \/ MissCached(r) \/ JoinDownload(r)
             \/ EarlyReturn(r) \/ DownloadEnded(r) \/ NoDownload(r)
             \/ SyncRetry(r) \/ SyncStart(r) \/ SyncFailed(r) \/ SyncUntrack(r)
             \/ PeekNext(r) \/ StartRead(r)
      PROVE  SlotsCounted'
  <2>1. Holding' = Holding /\ Busy' = Busy /\ UNCHANGED bgt_sem
    BY <1>5, ReaderMoves
    DEF SlotPcs, ReadCached, MissCached, JoinDownload, EarlyReturn, Awake,
        DownloadEnded, NoDownload, SyncRetry, SyncStart, SyncFailed,
        SyncUntrack, PeekNext, StartRead, Return
  <2> QED
    BY <1>5, <2>1, <1>2, <1>4 DEF ReadStep
<1>6. ASSUME NEW r \in Readers, SleepAgain(r) PROVE SlotsCounted'
  BY <1>6, <1>2 DEF SleepAgain, Holding, Busy, handles
<1>7. ASSUME NEW r \in Readers,
             TrySlot(r) \/ AddBg(r) \/ TryNextSlot(r) \/ AddNext(r)
      PROVE  SlotsCounted'
  <2>1. Busy' = Busy
    BY <1>7, ReaderMoves DEF TrySlot, AddBg, TryNextSlot, AddNext, Return
  <2>2. \/ bgt_sem > 0 /\ bgt_sem' = bgt_sem - 1 /\ Holding' = Holding + 1
        \/ bgt_sem' = bgt_sem /\ Holding' = Holding
        \/ bgt_sem' = bgt_sem + 1 /\ Holding' = Holding - 1
    BY <1>7, ReaderMoves
    DEF SlotPcs, TrySlot, AddBg, TryNextSlot, AddNext, Return
  <2> QED
    BY <1>7, <2>1, <2>2, <1>3, <1>4 DEF ReadStep
<1>8. ASSUME NEW r \in Readers, Launch(r) \/ LaunchNext(r) PROVE SlotsCounted'
  <2>1. Holding' = Holding - 1 /\ Busy' = Busy + 1 /\ UNCHANGED bgt_sem
    BY <1>8, LauncherMoves DEF Launch, LaunchNext
  <2>2. Opened # 0
    BY <1>8, FiniteThreads, CountType
    DEF Launch, LaunchNext, Opened, OpenPcs, ReaderPcs
  <2> QED
    BY <1>8, <2>1, <2>2, <1>4 DEF SlotsCounted, Collected, ReadStep
<1>9. ASSUME NEW r \in Readers, Cache_close(r) PROVE SlotsCounted'
  <2>1. Holding' = Holding /\ Busy' = Busy
    BY <1>9, ReaderMoves DEF Cache_close, SlotPcs
  <2>2. Opened # 0
    BY <1>9, FiniteThreads, CountType DEF Cache_close, Opened, OpenPcs, ReaderPcs
  <2>3. Collected = 0 /\ Collected' = 0 /\ slots[r] = 0
    BY <1>9 DEF Cache_close, Collected, SlotsCounted
  <2>4. bgt_sem + Holding + Busy = NumBgWorkers
    BY <2>2, <2>3 DEF SlotsCounted
  <2>5. \A x \in Readers : pc'[x] = "freeing" => pc[x] = "freeing"
    BY <1>9, ReaderAt DEF Cache_close
  <2>6. cache_opened' = 0 => cf_lock' # None
    BY <1>9, <2>2 DEF Cache_close
  <2> QED
    BY <1>9, <2>1, <2>3, <2>4, <2>5, <2>6 DEF Cache_close, SlotsCounted
<1>10. ASSUME NEW r \in Readers, CollectSlot(r) PROVE SlotsCounted'
  <2>1. Holding' = Holding /\ Busy' = Busy
    BY <1>10 DEF CollectSlot, Holding, Busy
  <2>2. /\ cf_lock = r /\ UNCHANGED cf_lock /\ slots[r] \in Nat
        /\ slots'[r] = slots[r] + 1 /\ \A x \in Readers \ {r} : slots'[x] = slots[x]
    BY <1>10 DEF CollectSlot, SlotsCounted
  <2>3. Collected = slots[r] /\ Collected' = slots[r] + 1
    BY <2>2 DEF Collected
  <2> QED
    BY <1>10, <2>1, <2>2, <2>3 DEF CollectSlot, SlotsCounted
<1>11. ASSUME NEW r \in Readers, SaveAndShutDown(r) PROVE SlotsCounted'
  <2>1. Holding' = Holding /\ Busy' = Busy
    BY <1>11, ReaderMoves DEF SaveAndShutDown, SlotPcs
  <2>2. \A x \in Readers : pc'[x] = "freeing" => pc[x] = "freeing" \/ x = r
    BY <1>11, ReaderAt DEF SaveAndShutDown
  <2> QED
    BY <1>11, <2>1, <2>2 DEF SaveAndShutDown, SlotsCounted, Collected
<1>12. ASSUME NEW r \in Readers, FreeCache(r) PROVE SlotsCounted'
  <2>1. Holding' = Holding /\ Busy' = Busy
    BY <1>12, ReaderMoves DEF FreeCache, SlotPcs
  <2>2. /\ cf_lock = r /\ cache_opened = 0 /\ Collected = NumBgWorkers
        /\ Busy = 0
    BY <1>12 DEF FreeCache, SlotsCounted, Collected
  <2>3. \A x \in Readers : slots'[x] = 0 /\ pc'[x] # "freeing"
    BY <1>12, <2>2, ReaderAt DEF FreeCache, SlotsCounted
  <2> QED
    BY <1>12, <2>1, <2>2, <2>3 DEF FreeCache, SlotsCounted
<1>13. ASSUME NEW t \in Threads, Download(t) PROVE SlotsCounted'
  BY <1>13, <1>2, DownloadStays DEF DownloadPcs, handles, Threads
<1>14. ASSUME NEW w \in Workers, BgUntrack(w) PROVE SlotsCounted'
  BY <1>14, <1>2, WorkerMoves, WorkerAt
  DEF BgUntrack, BusyPcs, WorkerPcs, handles
<1>15. ASSUME NEW w \in Workers, BgPost(w) PROVE SlotsCounted'
  <2>1. Holding' = Holding /\ Busy' = Busy - 1
    BY <1>15, WorkerMoves DEF BgPost, BusyPcs, WorkerPcs
  <2>2. \A x \in Readers : pc'[x] = pc[x]
    BY <1>15, WorkerAt DEF BgPost
  <2> QED
    BY <1>15, <2>1, <2>2 DEF BgPost, SlotsCounted, Collected, handles
<1>16. ASSUME UNCHANGED vars PROVE SlotsCounted'
  BY <1>16, <1>2 DEF vars, Holding, Busy
<1> QED
  BY <1>1, <1>5, <1>6, <1>7, <1>8, <1>9, <1>10, <1>11, <1>12, <1>13, <1>14,
      <1>15, <1>16
  DEF Next, Reader, ReadStep, CloseStep, Bgdl

\* waiters goes with the readers that wait and the threads that download.
LEMMA WaitersStep == ASSUME LockInv, Counted, [Next]_vars PROVE WaitersCounted'
<1> PcOK /\ waiters = Waiting + Fetching /\ cache_opened = Opened
  BY DEF LockInv, TypeOK, Counted, WaitersCounted, HandlesCounted
<1> USE CountsAreNat DEF WaitersCounted
<1>1. ASSUME NEW r \in Readers, Cache_open(r) PROVE WaitersCounted'
  <2>1. Waiting' = Waiting /\ Fetching' = Fetching
    BY <1>1, ReaderMoves DEF Cache_open, DownloadPcs
  <2>2. CASE cache_opened = 0
    <3>1. Waiting = 0 /\ Fetching = 0
      BY <1>1, <2>2, QuietWhen DEF Cache_open, LockInv, Counted, SlotsCounted
    <3> QED
      BY <1>1, <2>1, <2>2, <3>1 DEF Cache_open
  <2> QED
    BY <1>1, <2>1, <2>2 DEF Cache_open
\* Nobody registers or leaves.
<1>2. ASSUME NEW r \in Readers,
             \/ ReadCached(r) \/ MissCached(r) \/ NoDownload(r) \/ TrySlot(r)
             \/ AddBg(r) \/ SyncRetry(r) \/ TryNextSlot(r)
             \/ AddNext(r) \/ StartRead(r)
      PROVE  WaitersCounted'
  <2>1. Waiting' = Waiting /\ Fetching' = Fetching /\ UNCHANGED waiters
    BY <1>2, ReaderMoves
    DEF DownloadPcs, ReadCached, MissCached, NoDownload, TrySlot, AddBg,
        SyncRetry, TryNextSlot, AddNext, StartRead, Return, list
  <2> QED
    BY <2>1
<1>3. ASSUME NEW r \in Readers,
             \/ PeekNext(r) \/ Cache_close(r) \/ SaveAndShutDown(r)
             \/ FreeCache(r)
      PROVE  WaitersCounted'
  <2>1. Waiting' = Waiting /\ Fetching' = Fetching /\ UNCHANGED waiters
    BY <1>3, ReaderMoves
    DEF DownloadPcs, PeekNext, Cache_close, SaveAndShutDown, FreeCache, Return,
        list
  <2> QED
    BY <2>1
<1>4. ASSUME NEW r \in Readers, SleepAgain(r) \/ CollectSlot(r)
      PROVE  WaitersCounted'
  BY <1>4 DEF SleepAgain, CollectSlot, Waiting, Fetching, list
<1>5. ASSUME NEW r \in Readers, JoinDownload(r) PROVE WaitersCounted'
  <2>1. CASE Goto(r, "peekNext") /\ UNCHANGED waiters
    BY <1>5, <2>1, ReaderMoves DEF JoinDownload, DownloadPcs
  <2>2. CASE Goto(r, "wait") /\ waiters' = waiters + 1
    BY <1>5, <2>2, ReaderMoves DEF JoinDownload, DownloadPcs
  <2> QED
    BY <1>5, <2>1, <2>2 DEF JoinDownload
<1>6. ASSUME NEW r \in Readers, EarlyReturn(r) \/ DownloadEnded(r)
      PROVE  WaitersCounted'
  <2>1. Waiting' = Waiting - 1 /\ Fetching' = Fetching
    BY <1>6, ReaderMoves
    DEF EarlyReturn, DownloadEnded, Awake, Return, DownloadPcs
  <2> QED
    BY <1>6, <2>1 DEF EarlyReturn, DownloadEnded, LeaveWait
<1>7. ASSUME NEW r \in Readers, Launch(r) \/ LaunchNext(r)
      PROVE  WaitersCounted'
  <2>1. Waiting' = Waiting /\ Fetching' = Fetching + 1
    BY <1>7, LauncherMoves DEF Launch, LaunchNext
  <2> QED
    BY <1>7, <2>1 DEF Launch, LaunchNext, Cache_bgdl_launcher
<1>8. ASSUME NEW r \in Readers, SyncStart(r) PROVE WaitersCounted'
  BY <1>8, ReaderMoves DEF SyncStart, DownloadPcs
<1>9. ASSUME NEW r \in Readers, SyncFailed(r) \/ SyncUntrack(r)
      PROVE  WaitersCounted'
  <2>1. Waiting' = Waiting /\ Fetching' = Fetching - 1
    BY <1>9, ReaderMoves DEF SyncFailed, SyncUntrack, Return, DownloadPcs
  <2> QED
    BY <1>9, <2>1 DEF SyncFailed, SyncUntrack, ActiveDownload_remove
<1>10. ASSUME NEW w \in Workers, BgUntrack(w) PROVE WaitersCounted'
  <2>1. Waiting' = Waiting /\ Fetching' = Fetching - 1
    BY <1>10, WorkerMoves DEF BgUntrack, DownloadPcs
  <2> QED
    BY <1>10, <2>1 DEF BgUntrack, ActiveDownload_remove
<1>11. ASSUME NEW w \in Workers, BgPost(w) PROVE WaitersCounted'
  <2>1. Waiting' = Waiting /\ Fetching' = Fetching
    BY <1>11, WorkerMoves DEF BgPost, DownloadPcs
  <2> QED
    BY <1>11, <2>1 DEF BgPost, list
<1>12. ASSUME NEW t \in Threads, Download(t) PROVE WaitersCounted'
  BY <1>12, DownloadStays
<1>13. ASSUME UNCHANGED vars PROVE WaitersCounted'
  BY <1>13 DEF vars, Waiting, Fetching
<1> QED
  BY <1>1, <1>2, <1>3, <1>4, <1>5, <1>6, <1>7, <1>8, <1>9, <1>10, <1>11,
      <1>12, <1>13
  DEF Next, Reader, ReadStep, CloseStep, Bgdl

\* At the start nobody is counted.
LEMMA CountedInit == Init => Counted
<1> SUFFICES ASSUME Init PROVE Counted
  OBVIOUS
<1> USE CacheAssumption DEF CacheAssumption
<1>1. /\ \A r \in Readers : pc[r] = "closed"
      /\ \A w \in Workers : pc[w] = "idle"
      /\ \A t \in Threads : pc[t] \in {"closed", "idle"}
  BY DEF Init, Threads
<1>2. /\ Opened = 0 /\ Holding = 0 /\ Busy = 0 /\ Waiting = 0 /\ Fetching = 0
  BY <1>1, FiniteThreads, CountType
  DEF Opened, Holding, Busy, Waiting, Fetching, OpenPcs, SlotPcs, BusyPcs,
      DownloadPcs
<1> QED
  BY <1>1, <1>2, FirstValues
  DEF Init, Threads, Counted, HandlesCounted, SlotsCounted, WaitersCounted,
      Collected

\* The counters count what they are meant to.
THEOREM CountersCount == Spec => []Counted
<1>1. LockInv /\ Counted /\ [Next]_vars => Counted'
  BY HandlesStep, SlotsStep, WaitersStep DEF Counted
<1> QED
  BY LockInvariant, CountedInit, <1>1, PTL DEF Spec

\* SlotsConserved: bgt_sem loses no slot and gains none, through background
\* downloads, prefetches, back-offs and the last close (SEM_TRYWAIT and SEM_POST
\* of cache.c).
THEOREM SlotsAlwaysConserved == Spec => []SlotsConserved
<1>1. LockInv /\ Counted => SlotsConserved
  <2> SUFFICES ASSUME LockInv, Counted PROVE SlotsConserved
    OBVIOUS
  <2>1. {w \in Workers : pc[w] # "idle"} = {w \in Workers : pc[w] \in BusyPcs}
    BY DEF LockInv, TypeOK, PcOK, BusyPcs
  <2>2. /\ Busy = Cardinality({w \in Workers : pc[w] # "idle"})
        /\ Holding = Cardinality({r \in Readers :
             pc[r] \in {"addBg", "launch", "addNext", "launchNext"}})
    BY <2>1, Zenon DEF Busy, Holding, CountIn, SlotPcs
  <2> QED
    BY <2>2 DEF SlotsConserved, Counted, SlotsCounted, Collected
<1> QED
  BY LockInvariant, CountersCount, <1>1, PTL
===============================================================================
